---- MODULE Spec2Model ----
(***************************************************************************)
(* Model of the wordly backend (src/backend): the guess evaluator          *)
(* (game_logic.py / app.py), the database-backed player session store      *)
(* (game_store.py, models.py) and the JSON-file score ledger endpoints     *)
(* (app.py).                                                               *)
(*                                                                         *)
(* A word is a sequence of one-character strings.  A status is one of      *)
(* "correct", "present", "absent".                                         *)
(***************************************************************************)
EXTENDS Integers, Sequences, FiniteSets, TLC

VARIABLES
    ev,         \* evaluator run: the arguments of evaluate_guess and its result
    games,      \* table game: sequence of rows, the row's id is its index
    db,         \* table player_state (+ guesses, keyboard statuses), committed
    sess,       \* the same rows as the open ORM session sees them (pending changes)
    clock,      \* next value read from the wall clock
    result,     \* outcome of the last game_store call
    file,       \* content of game_state.json, or NoFile
    req,        \* app.py: the in-flight request of every server thread
    responses,  \* app.py: the responses sent so far, in order
    score,      \* table score: the set of committed rows
    engine      \* the database the engine of db.py is bound to

vars == <<ev, games, db, sess, clock, result, file, req, responses, score,
          engine>>

(***************************************************************************)
(* Bounds of the model.                                                    *)
(***************************************************************************)
MaxLen == 3         \* evaluator inputs: longest word drawn
NumLetters == 3     \* evaluator inputs: size of the alphabet drawn from
MaxSaved == 1       \* store: save_score calls in one run

Alphabet == <<"A", "B", "C", "D", "E", "F", "G", "H">>
Letters == {Alphabet[i] : i \in 1..NumLetters}

SPEED == <<"S", "P", "E", "E", "D">>
ERASE == <<"E", "R", "A", "S", "E">>

Range(s) == {s[i] : i \in DOMAIN s}
Min(a, b) == IF a < b THEN a ELSE b

(***************************************************************************)
(* game_logic.evaluate_guess (identical copy in app.py).                   *)
(***************************************************************************)
\* zip(guess, word) stops at the shorter argument
ZipLen(guess, word) == Min(Len(guess), Len(word))

\* remaining.get(c, 0)
RemainingGet(remaining, c) == IF c \in DOMAIN remaining THEN remaining[c] ELSE 0

\* remaining[c] = n on a dict
RemainingSet(remaining, c, n) ==
    [k \in DOMAIN remaining \cup {c} |-> IF k = c THEN n ELSE remaining[k]]

\* mutant of FirstPass: the loop stops one position early
RECURSIVE FirstPassShort(_, _, _, _)
FirstPassShort(guess, word, index, acc) ==
    IF index >= ZipLen(guess, word) THEN acc
    ELSE IF guess[index] = word[index]
         THEN FirstPassShort(guess, word, index + 1,
                             [acc EXCEPT !.statuses[index] = "correct"])
         ELSE FirstPassShort(guess, word, index + 1,
                             [acc EXCEPT !.remaining =
                                 RemainingSet(@, word[index],
                                              RemainingGet(@, word[index]) + 1)])

\* mutant of FirstPass: an unmatched letter of the word is recorded, not counted
RECURSIVE FirstPassNoCount(_, _, _, _)
FirstPassNoCount(guess, word, index, acc) ==
    IF index > ZipLen(guess, word) THEN acc
    ELSE IF guess[index] = word[index]
         THEN FirstPassNoCount(guess, word, index + 1,
                               [acc EXCEPT !.statuses[index] = "correct"])
         ELSE FirstPassNoCount(guess, word, index + 1,
                               [acc EXCEPT !.remaining =
                                   RemainingSet(@, word[index], 1)])

\* first loop: mark the exact matches, count the unmatched letters of the word
RECURSIVE FirstPass(_, _, _, _)
FirstPass(guess, word, index, acc) ==
    IF index > ZipLen(guess, word) THEN acc
    ELSE IF guess[index] = word[index]
         THEN FirstPass(guess, word, index + 1,
                        [acc EXCEPT !.statuses[index] = "correct"])
         ELSE FirstPass(guess, word, index + 1,
                        [acc EXCEPT !.remaining =
                            RemainingSet(@, word[index],
                                         RemainingGet(@, word[index]) + 1)])

\* mutant of SecondPass: the counter test is >= 0, and the counter is not used up
RECURSIVE SecondPassAlways(_, _, _, _)
SecondPassAlways(guess, word, index, acc) ==
    IF index > ZipLen(guess, word) THEN acc
    ELSE IF guess[index] = word[index]
         THEN SecondPassAlways(guess, word, index + 1, acc)
         ELSE IF RemainingGet(acc.remaining, guess[index]) >= 0
              THEN SecondPassAlways(guess, word, index + 1,
                                    [acc EXCEPT !.statuses[index] = "present"])
              ELSE SecondPassAlways(guess, word, index + 1, acc)

\* mutant of SecondPass: the counter is never decremented
RECURSIVE SecondPassNoDecrement(_, _, _, _)
SecondPassNoDecrement(guess, word, index, acc) ==
    IF index > ZipLen(guess, word) THEN acc
    ELSE IF guess[index] = word[index]
         THEN SecondPassNoDecrement(guess, word, index + 1, acc)
         ELSE IF RemainingGet(acc.remaining, guess[index]) > 0
              THEN SecondPassNoDecrement(guess, word, index + 1,
                                         [acc EXCEPT !.statuses[index] = "present"])
              ELSE SecondPassNoDecrement(guess, word, index + 1, acc)

\* second loop, left to right: an unmatched letter is present while the word
\* still has an unmatched occurrence of it
RECURSIVE SecondPass(_, _, _, _)
SecondPass(guess, word, index, acc) ==
    IF index > ZipLen(guess, word) THEN acc
    ELSE IF guess[index] = word[index]
         THEN SecondPass(guess, word, index + 1, acc)
         ELSE IF RemainingGet(acc.remaining, guess[index]) > 0
              THEN SecondPass(guess, word, index + 1,
                              [acc EXCEPT !.statuses[index] = "present",
                                          !.remaining[guess[index]] = @ - 1])
              ELSE SecondPass(guess, word, index + 1, acc)

evaluate_guess(guess, word) ==
    LET start == [statuses |-> [i \in 1..Len(word) |-> "absent"],
                  remaining |-> <<>>]
        first == FirstPass(guess, word, 1, start)
    IN SecondPass(guess, word, 1, first).statuses

(***************************************************************************)
(* Evaluator runs: the arguments are drawn, then post_guess's last two     *)
(* lines are applied to them (statuses, isCorrect).                        *)
(***************************************************************************)
WordsOfLen(n) == [1..n -> Letters]

NoEval == [guess |-> <<>>, word |-> <<>>, statuses |-> <<>>,
           isCorrect |-> FALSE, done |-> FALSE]

Evaluate ==
    /\ ~ev.done
    /\ ev' = [ev EXCEPT !.statuses = evaluate_guess(ev.guess, ev.word),
                        !.isCorrect = (ev.guess = ev.word),
                        !.done = TRUE]
    /\ UNCHANGED <<games, db, sess, clock, result, file, req, responses, score, engine>>

(***************************************************************************)
(* game_store.py on one ORM session.  db holds the committed rows, sess    *)
(* the rows as the session sees them: every query autoflushes, so reads go *)
(* to sess; session.commit() makes sess the committed state.               *)
(* A player_state row is keyed by <<game id, uid>>; its guesses are a set  *)
(* of player_guess rows, its keyboard statuses a map letter -> status.     *)
(***************************************************************************)
Uids == {"u1", "u2"}
Names == {"Ann", "Bob"}

\* candidate_words.txt as parsed: the pool the secret word is drawn from
Candidates == {[word |-> <<"A", "B">>, definition |-> "first two letters"]}

\* guesses a client sends: words of the secret word's length.  The first
\* player plays whole games; the second one is there for the name conflicts
\* and the interleaving, and sends one guess only.
GuessPool == {<<"A", "B">>, <<"A", "A">>, <<"B", "A">>}
GuessesOf(uid) == IF uid = "u1" THEN GuessPool ELSE {<<"A", "B">>}

DEFAULT_WORD == <<"C", "R", "A", "T", "E">>
MAX_GUESSES == 6

None == <<>>            \* a NULL column
Some(t) == <<t>>

_STATUS_PRIORITY == [absent |-> 1, present |-> 2, correct |-> 3]
StatusPriorityGet(status) ==
    IF status \in DOMAIN _STATUS_PRIORITY THEN _STATUS_PRIORITY[status] ELSE 0

\* random.choice(candidates), or the default when the pool is empty
choose_word_definition ==
    IF Candidates = {} THEN {[word |-> DEFAULT_WORD, definition |-> ""]}
    ELSE Candidates

NewGame(n, choice) ==
    [uid |-> n, word |-> choice.word, definition |-> choice.definition,
     max_guesses |-> MAX_GUESSES, word_length |-> Len(choice.word)]

\* the id of the row get_active_game returns: the newest game
ActiveId == Len(games)

get_player_state_record(rows, gid, uid) ==
    IF <<gid, uid>> \in DOMAIN rows THEN {rows[<<gid, uid>>]} ELSE {}

has_name_conflict(rows, gid, uid, name) ==
    \E k \in DOMAIN rows : k[1] = gid /\ rows[k].name = name /\ k[2] # uid

NameInUse == "PlayerStateConflictError"
BadSequence == "InvalidGuessSequenceError"

PutRow(rows, key, row) ==
    [k \in DOMAIN rows \cup {key} |-> IF k = key THEN row ELSE rows[k]]

\* uq_player_state_game_id_name fails for the row of key under this name
NameTaken(rows, key, name) ==
    \E k \in DOMAIN rows : k # key /\ k[1] = key[1] /\ rows[k].name = name

\* session.flush() of the new player_state row raises IntegrityError: the
\* database holds a row of this game and uid, or one of this game and name
InsertFails(stored, key, name) ==
    key \in DOMAIN stored \/ NameTaken(stored, key, name)

\* PlayerState(...) as get_or_create_player_state builds it
NewRecord(name, now) ==
    [name |-> name, is_winner |-> FALSE,
     start_time |-> Some(now), finish_time |-> None,
     guesses |-> {}, keyboard_statuses |-> <<>>]

\* mutant of get_or_create_player_state: an existing session takes the new
\* name before the name is looked up among the other players
get_or_create_player_stateRenameFirst(rows, committed, stored, now, gid, uid, name) ==
    LET key == <<gid, uid>> IN
    IF key \in DOMAIN rows
    THEN IF has_name_conflict(rows, gid, uid, name)
         THEN [error |-> NameInUse,
               rows |-> [rows EXCEPT ![key].name = name], clock |-> now]
         ELSE [error |-> "none",
               rows |-> [rows EXCEPT ![key].name = name], clock |-> now]
    ELSE IF has_name_conflict(rows, gid, uid, name)
         THEN [error |-> NameInUse, rows |-> rows, clock |-> now]
         ELSE IF InsertFails(stored, key, name)
         THEN [error |-> NameInUse, rows |-> committed, clock |-> now + 1]
         ELSE [error |-> "none",
               rows |-> PutRow(rows, key, NewRecord(name, now)),
               clock |-> now + 1]

\* rows: the rows as the session holds them, which its SELECTs return;
\* committed: the same rows without the session's uncommitted changes;
\* stored: what the database holds when the INSERT of a new row arrives (the
\* session's own rows, and what other sessions have committed by then).
\* Returns the session's rows after the call, the error raised (or "none")
\* and the clock after the call.
get_or_create_player_state(rows, committed, stored, now, gid, uid, name) ==
    LET key == <<gid, uid>> IN
    IF key \in DOMAIN rows
    THEN IF rows[key].name # name
         THEN IF has_name_conflict(rows, gid, uid, name)
              THEN [error |-> NameInUse, rows |-> rows, clock |-> now]
              ELSE [error |-> "none",
                    rows |-> [rows EXCEPT ![key].name = name], clock |-> now]
         ELSE [error |-> "none", rows |-> rows, clock |-> now]
    ELSE IF has_name_conflict(rows, gid, uid, name)
         THEN [error |-> NameInUse, rows |-> rows, clock |-> now]
         \* _now_millis() has been read; the flush fails, session.rollback()
         \* discards everything the session has not committed and the
         \* conflict is raised
         ELSE IF InsertFails(stored, key, name)
         THEN [error |-> NameInUse, rows |-> committed, clock |-> now + 1]
         ELSE [error |-> "none",
               rows |-> PutRow(rows, key, NewRecord(name, now)),
               clock |-> now + 1]

\* sorted(guess.guess_number for guess in guesses), as a sequence
RECURSIVE SortedNumbers(_)
SortedNumbers(guesses) ==
    IF guesses = {} THEN <<>>
    ELSE LET m == CHOOSE g \in guesses :
                      \A h \in guesses : g.guess_number >= h.guess_number
         IN Append(SortedNumbers(guesses \ {m}), m.guess_number)

\* the message of the InvalidGuessSequenceError _validate_guess_sequence
\* raises, "" when it returns
_validate_guess_sequence(guesses, max_guesses) ==
    LET guess_numbers == SortedNumbers(guesses) IN
    IF Len(guess_numbers) > max_guesses
    THEN "Too many guesses for this game."
    ELSE IF /\ guess_numbers # <<>>
            /\ guess_numbers # [i \in 1..Len(guess_numbers) |-> i]
         THEN "Guesses must form a contiguous sequence starting at 1."
         ELSE ""

\* letter.upper() on the letters of the model
Upper(letter) ==
    CASE letter = "a" -> "A"
      [] letter = "b" -> "B"
      [] OTHER -> letter

\* mutant of UpsertLoop: the new status is stored without comparing ranks
RECURSIVE UpsertLoopOverwrite(_, _, _, _)
UpsertLoopOverwrite(existing, guess, statuses, index) ==
    IF index > ZipLen(guess, statuses) THEN existing
    ELSE UpsertLoopOverwrite(RemainingSet(existing, Upper(guess[index]),
                                          statuses[index]),
                             guess, statuses, index + 1)

\* mutant of UpsertLoop: a letter keeps the first status stored for it
RECURSIVE UpsertLoopFirstOnly(_, _, _, _)
UpsertLoopFirstOnly(existing, guess, statuses, index) ==
    IF index > ZipLen(guess, statuses) THEN existing
    ELSE IF Upper(guess[index]) \notin DOMAIN existing
         THEN UpsertLoopFirstOnly(RemainingSet(existing, Upper(guess[index]),
                                               statuses[index]),
                                  guess, statuses, index + 1)
         ELSE UpsertLoopFirstOnly(existing, guess, statuses, index + 1)

\* the loop of _upsert_keyboard_statuses over zip(guess, statuses)
RECURSIVE UpsertLoop(_, _, _, _)
UpsertLoop(existing, guess, statuses, index) ==
    IF index > ZipLen(guess, statuses) THEN existing
    ELSE LET letter == Upper(guess[index])
             status == statuses[index]
             new_rank == StatusPriorityGet(status)
         IN IF letter \notin DOMAIN existing
            THEN UpsertLoop(RemainingSet(existing, letter, status),
                            guess, statuses, index + 1)
            ELSE IF new_rank > StatusPriorityGet(existing[letter])
                 THEN UpsertLoop([existing EXCEPT ![letter] = status],
                                 guess, statuses, index + 1)
                 ELSE UpsertLoop(existing, guess, statuses, index + 1)

_upsert_keyboard_statuses(record, guess, statuses) ==
    [record EXCEPT !.keyboard_statuses = UpsertLoop(@, guess, statuses, 1)]

\* mutant of AppendGuess: the guess is numbered one too high
AppendGuessOffByOne(record, next_guess_number, guess, statuses) ==
    [record EXCEPT !.guesses = @ \cup
        {[guess_number |-> next_guess_number + 1,
          guess_text |-> guess,
          statuses |-> statuses]}]

\* mutant of AppendGuess: the new guess takes the place of the recorded ones
AppendGuessReplace(record, next_guess_number, guess, statuses) ==
    [record EXCEPT !.guesses =
        {[guess_number |-> next_guess_number,
          guess_text |-> guess,
          statuses |-> statuses]}]

\* record.guesses.append(PlayerGuess(...))
AppendGuess(record, next_guess_number, guess, statuses) ==
    [record EXCEPT !.guesses = @ \cup
        {[guess_number |-> next_guess_number,
          guess_text |-> guess,
          statuses |-> statuses]}]

\* mutant of FinishIfOver: the last guess is tested with > instead of >=
FinishIfOverLate(record, is_correct, next_guess_number, max_guesses, now) ==
    IF is_correct
    THEN [row |-> [record EXCEPT !.is_winner = TRUE, !.finish_time = Some(now)],
          clock |-> now + 1]
    ELSE IF next_guess_number > max_guesses
         THEN [row |-> [record EXCEPT !.is_winner = FALSE,
                                      !.finish_time = Some(now)],
               clock |-> now + 1]
         ELSE [row |-> record, clock |-> now]

\* mutant of FinishIfOver: only a correct guess finishes the session
FinishIfOverWinOnly(record, is_correct, next_guess_number, max_guesses, now) ==
    IF is_correct
    THEN [row |-> [record EXCEPT !.is_winner = TRUE, !.finish_time = Some(now)],
          clock |-> now + 1]
    ELSE [row |-> record, clock |-> now]

\* mutant of FinishIfOver: the last wrong guess is recorded as a win
FinishIfOverLossWins(record, is_correct, next_guess_number, max_guesses, now) ==
    IF is_correct \/ next_guess_number >= max_guesses
    THEN [row |-> [record EXCEPT !.is_winner = TRUE, !.finish_time = Some(now)],
          clock |-> now + 1]
    ELSE [row |-> record, clock |-> now]

\* the win / loss decision after the guess has been appended
FinishIfOver(record, is_correct, next_guess_number, max_guesses, now) ==
    IF is_correct
    THEN [row |-> [record EXCEPT !.is_winner = TRUE, !.finish_time = Some(now)],
          clock |-> now + 1]
    ELSE IF next_guess_number >= max_guesses
         THEN [row |-> [record EXCEPT !.is_winner = FALSE,
                                      !.finish_time = Some(now)],
               clock |-> now + 1]
         ELSE [row |-> record, clock |-> now]

\* the row after a guess has been accepted as guess number next_guess_number
AcceptGuess(record, game, guess, next_guess_number, now) ==
    LET statuses == evaluate_guess(guess, game.word)
        appended == AppendGuess(record, next_guess_number, guess, statuses)
        hinted == _upsert_keyboard_statuses(appended, guess, statuses)
    IN FinishIfOver(hinted, guess = game.word, next_guess_number,
                    game.max_guesses, now)

\* the view of a session a caller gets: the guesses in the order of their
\* numbers, the hints as a map
_serialize_player_state(record, game) ==
    LET guesses ==
            [i \in 1..Cardinality(record.guesses) |->
                LET guess == CHOOSE g \in record.guesses :
                                 Cardinality({h \in record.guesses :
                                     h.guess_number < g.guess_number}) = i - 1
                IN [guessNumber |-> guess.guess_number,
                    guess |-> guess.guess_text,
                    statuses |-> guess.statuses]]
    IN [name |-> record.name,
        isWinner |-> record.is_winner,
        startTime |-> record.start_time,
        finishTime |-> record.finish_time,
        currentRow |-> Len(guesses),
        currentCol |-> 0,
        gameOver |-> record.finish_time # None,
        maxGuesses |-> game.max_guesses,
        wordLength |-> game.word_length,
        guesses |-> guesses,
        keyboardStatuses |-> record.keyboard_statuses]

\* rows, stored: as in get_or_create_player_state; the result names the
\* error raised (or "none"), the session's rows afterwards and whether
\* session.commit() was reached
apply_guess_for_player(rows, committed, stored, now, game, gid, uid, name, guess) ==
    LET key == <<gid, uid>>
        got == get_or_create_player_state(rows, committed, stored, now, gid, uid,
                                          name)
    IN IF got.error # "none"
       THEN [error |-> got.error,
             message |-> "The name " \o name
                             \o " is already in use. Please choose another",
             rows |-> got.rows, commit |-> FALSE, clock |-> got.clock]
       ELSE LET record == got.rows[key]
                next_guess_number == Cardinality(record.guesses) + 1
                invalid == _validate_guess_sequence(record.guesses,
                                                    game.max_guesses)
            IN IF invalid # ""
               THEN [error |-> BadSequence,
                     message |-> invalid,
                     rows |-> got.rows, commit |-> FALSE, clock |-> got.clock]
               ELSE IF record.finish_time # None
               THEN [error |-> BadSequence,
                     message |-> "Game is already over for this player.",
                     rows |-> got.rows, commit |-> FALSE, clock |-> got.clock]
               ELSE IF next_guess_number > game.max_guesses
               THEN [error |-> BadSequence,
                     message |-> "Maximum guesses reached for this game.",
                     rows |-> got.rows, commit |-> FALSE, clock |-> got.clock]
               ELSE LET done == AcceptGuess(record, game, guess,
                                            next_guess_number, got.clock)
                    IN [error |-> "none", message |-> "",
                        rows |-> [got.rows EXCEPT ![key] = done.row],
                        commit |-> TRUE, clock |-> done.clock]

NoResult == [op |-> "", uid |-> "", guess |-> <<>>,
             error |-> "none", message |-> ""]

\* get_active_game: the newest game; the first call creates it and commits
GetActiveGame ==
    /\ IF games = <<>>
       THEN /\ \E choice \in choose_word_definition :
                   games' = <<NewGame(1, choice)>>
            /\ db' = sess
       ELSE UNCHANGED <<games, db>>
    /\ result' = [NoResult EXCEPT !.op = "get_active_game"]
    /\ UNCHANGED <<ev, sess, clock, file, req, responses, score, engine>>

\* apply_guess_for_player on the active game
ApplyGuess(uid, name, guess) ==
    /\ games # <<>>
    /\ LET out == apply_guess_for_player(sess, db, sess, clock, games[ActiveId],
                                         ActiveId, uid, name, guess)
       IN /\ sess' = out.rows
          /\ db' = IF out.commit THEN out.rows ELSE db
          /\ clock' = out.clock
          /\ result' = [op |-> "apply_guess_for_player", uid |-> uid,
                        guess |-> guess,
                        error |-> out.error, message |-> out.message]
    /\ UNCHANGED <<ev, games, file, req, responses, score, engine>>

\* the caller gives the session up without a commit (rollback or close)
Rollback ==
    /\ sess # db
    /\ sess' = db
    /\ result' = [NoResult EXCEPT !.op = "rollback"]
    /\ UNCHANGED <<ev, games, db, clock, file, req, responses, score, engine>>

\* the arguments of the save_score calls drawn
ScoreArgs == {[uid |-> "u1", name |-> "Ann", tries |-> 1, duration |-> 2]}

\* save_score on the active game: the Score row is added with the time read
\* from the clock, and session.commit() writes it together with whatever
\* else is pending in the session
SaveScore(entry) ==
    /\ games # <<>>
    /\ Cardinality(score) < MaxSaved
    /\ score' = score \cup
           {[id |-> Cardinality(score) + 1, game_id |-> ActiveId,
             uid |-> entry.uid, name |-> entry.name, tries |-> entry.tries,
             duration |-> entry.duration, timestamp |-> clock]}
    /\ clock' = clock + 1
    /\ db' = sess
    /\ result' = [NoResult EXCEPT !.op = "save_score", !.uid = entry.uid]
    /\ UNCHANGED <<ev, games, sess, file, req, responses, engine>>

NoFile == [exists |-> FALSE]

InitStore ==
    /\ ev = NoEval
    /\ games = <<>>
    /\ db = <<>>
    /\ sess = <<>>
    /\ clock = 1
    /\ result = NoResult
    /\ file = NoFile
    /\ req = <<>>
    /\ responses = <<>>
    /\ score = {}
    /\ engine = "sqlite"

NextStore ==
    \/ GetActiveGame
    \/ \E uid \in Uids, name \in Names : \E guess \in GuessesOf(uid) :
           ApplyGuess(uid, name, guess)
    \/ Rollback
    \/ \E entry \in ScoreArgs : SaveScore(entry)

SpecStore == InitStore /\ [][NextStore]_vars

InitEval ==
    \* the arguments drawn: equal-length pairs (the caller's precondition)
    \* and the spec's example
    /\ \/ \E n \in 0..MaxLen : \E guess \in WordsOfLen(n), word \in WordsOfLen(n) :
              ev = [NoEval EXCEPT !.guess = guess, !.word = word]
       \/ ev = [NoEval EXCEPT !.guess = ERASE, !.word = SPEED]
    /\ games = <<>>
    /\ db = <<>>
    /\ sess = <<>>
    /\ clock = 1
    /\ result = NoResult
    /\ file = NoFile
    /\ req = <<>>
    /\ responses = <<>>
    /\ score = {}
    /\ engine = "sqlite"

NextEval == Evaluate

SpecEval == InitEval /\ [][NextEval]_vars

(***************************************************************************)
(* app.py: the score ledger kept in game_state.json.  Every request runs   *)
(* on its own server thread; STATE_LOCK is held inside load_full_game_state*)
(* and inside save_scores, not across a handler, so a handler is a         *)
(* sequence of atomic steps: one per locked region.                        *)
(* A JSON value of a payload is [t |-> type, v |-> value].                 *)
(***************************************************************************)
Procs == {"t1", "t2"}
MaxRequests == 3    \* requests served in one run

JStr(s) == [t |-> "str", v |-> s]
JInt(n) == [t |-> "int", v |-> n]
JNull == [t |-> "null"]

\* float('nan') among the numbers of the model (which are integers, and none
\* of them negative): json.loads reads the literal NaN as this one object
NaN == 0 - 1
JNaN == [t |-> "float", v |-> NaN]

\* < and <= of Python numbers: every comparison with nan is False
FloatLess(x, y) == x # NaN /\ y # NaN /\ x < y
FloatLessEq(x, y) == x # NaN /\ y # NaN /\ x <= y

\* str.strip() on the strings of the model
Strip(s) ==
    CASE s = " " -> ""
      [] s = " d1 " -> "d1"
      [] OTHER -> s

\* sanitize_text: the text, or the message of the ValueError
sanitize_text(value, field) ==
    IF value.t # "str" THEN [error |-> field \o " must be a string", value |-> ""]
    ELSE IF Strip(value.v) = "" THEN [error |-> field \o " is required", value |-> ""]
    ELSE [error |-> "", value |-> Strip(value.v)]

sanitize_int(value, field) ==
    IF value.t # "int" THEN [error |-> field \o " must be an integer", value |-> 0]
    ELSE [error |-> "", value |-> value.v]

\* the model's numbers are integers: float(value) keeps the value
sanitize_float(value, field) ==
    IF value.t \notin {"int", "float"} THEN [error |-> field \o " must be a number", value |-> 0]
    ELSE [error |-> "", value |-> value.v]

\* the bodies of the submit requests drawn
SubmitPayloads ==
    {[uid |-> JStr("d1"), name |-> JStr("Ann"), tries |-> JInt(3), duration |-> JInt(50)],
     [uid |-> JStr(" d1 "), name |-> JStr("Ann"), tries |-> JInt(2), duration |-> JInt(70)],
     [uid |-> JStr("d2"), name |-> JStr("Bob"), tries |-> JInt(3), duration |-> JInt(40)],
     [uid |-> JStr("d2"), name |-> JNull, tries |-> JInt(3), duration |-> JInt(30)],
     [uid |-> JStr(" "), name |-> JStr("Ann"), tries |-> JInt(3), duration |-> JInt(30)],
     [uid |-> JStr("d1"), name |-> JStr("Ann"), tries |-> JInt(0), duration |-> JInt(30)],
     [uid |-> JStr("d2"), name |-> JStr("Bob"), tries |-> JInt(1), duration |-> JInt(0)],
     [uid |-> JStr("d2"), name |-> JStr("Bob"), tries |-> JInt(3), duration |-> JNaN]}

\* the try block of post_submit and the two range checks: the first error
ValidateSubmit(payload) ==
    LET uid == sanitize_text(payload.uid, "uid")
        name == sanitize_text(payload.name, "name")
        tries == sanitize_int(payload.tries, "tries")
        duration == sanitize_float(payload.duration, "duration")
        error == IF uid.error # "" THEN uid.error
                 ELSE IF name.error # "" THEN name.error
                 ELSE IF tries.error # "" THEN tries.error
                 ELSE IF duration.error # "" THEN duration.error
                 ELSE IF tries.value <= 0 THEN "tries must be positive."
                 ELSE IF FloatLessEq(duration.value, 0)
                      THEN "duration must be positive."
                 ELSE ""
    IN [error |-> error, uid |-> uid.value, name |-> name.value,
        tries |-> tries.value, duration |-> duration.value]

\* mutant of build_new_game_state: the scores of the file are carried over
build_new_game_stateKeepScores(choice, token) ==
    [exists |-> TRUE, gameUid |-> token, word |-> choice.word,
     definition |-> choice.definition,
     scores |-> IF file.exists THEN file.scores ELSE <<>>, players |-> <<>>]

\* uuid4().hex: a token never handed out before, here the clock's reading
build_new_game_state(choice, token) ==
    [exists |-> TRUE, gameUid |-> token, word |-> choice.word,
     definition |-> choice.definition, scores |-> <<>>, players |-> <<>>]

\* load_full_game_state: the file is created when missing; a file written by
\* this program is well formed and normalize_game_state returns it as it is
load_full_game_state(f, choice, token) ==
    IF ~f.exists THEN build_new_game_state(choice, token) ELSE f

ScoreKey(entry) == <<entry.tries, entry.duration, entry.timestamp>>

\* tuple comparison of two sort keys: the first place where they differ
\* decides (nan, one object, is equal to itself and unordered with the rest)
KeyLess(a, b) ==
    \/ FloatLess(a[1], b[1])
    \/ a[1] = b[1] /\ FloatLess(a[2], b[2])
    \/ a[1] = b[1] /\ a[2] = b[2] /\ FloatLess(a[3], b[3])

EntryLess(x, y) == KeyLess(ScoreKey(x), ScoreKey(y))

Reverse(s) == [i \in 1..Len(s) |-> s[Len(s) + 1 - i]]

\* list.sort, count_run: the length of the run that starts the list, from
\* its third element on
RECURSIVE CountRun(_, _, _)
CountRun(a, i, descending) ==
    IF i > Len(a) THEN i - 1
    ELSE IF EntryLess(a[i], a[i - 1]) = descending
         THEN CountRun(a, i + 1, descending)
         ELSE i - 1

\* list.sort, binarysort: where the pivot goes among a[1..start-1]
RECURSIVE BinarySearch(_, _, _, _)
BinarySearch(a, pivot, l, r) ==
    IF l >= r THEN l
    ELSE LET p == l + ((r - l) \div 2) IN
         IF EntryLess(pivot, a[p]) THEN BinarySearch(a, pivot, l, p)
         ELSE BinarySearch(a, pivot, p + 1, r)

\* list.sort, binarysort: a[start..] inserted one by one into the sorted
\* part before them
RECURSIVE BinarySort(_, _)
BinarySort(a, start) ==
    IF start > Len(a) THEN a
    ELSE LET pivot == a[start]
             l == BinarySearch(a, pivot, 1, start)
         IN BinarySort(SubSeq(a, 1, l - 1) \o <<pivot>>
                           \o SubSeq(a, l, start - 1)
                           \o SubSeq(a, start + 1, Len(a)),
                       start + 1)

\* sorted(scores, key=...) for a list shorter than 64: the run at the head
\* of the list is found (and reversed when it descends strictly), the rest
\* is inserted by binary search
sort_scores(scores) ==
    IF Len(scores) < 2 THEN scores
    ELSE LET descending == EntryLess(scores[2], scores[1])
             run == CountRun(scores, 3, descending)
         IN BinarySort(IF descending
                       THEN Reverse(SubSeq(scores, 1, run))
                                \o SubSeq(scores, run + 1, Len(scores))
                       ELSE scores,
                       run + 1)

NoReq == [pc |-> "idle", uid |-> "", scores |-> <<>>]

Respond(proc, uid, status, error) ==
    Append(responses, [proc |-> proc, op |-> "submit", uid |-> uid,
                       status |-> status, error |-> error])

InFlight == Cardinality({p \in Procs : req[p].pc # "idle"})

\* post_submit, lines 335-352: validation, load_scores (which takes and
\* releases STATE_LOCK) and the duplicate check
SubmitBegin(proc, payload) ==
    /\ req[proc].pc = "idle"
    /\ Len(responses) + InFlight < MaxRequests
    /\ LET valid == ValidateSubmit(payload) IN
       IF valid.error # ""
       THEN /\ responses' = Respond(proc, valid.uid, 400, valid.error)
            /\ UNCHANGED <<file, req, clock>>
       ELSE \E choice \in choose_word_definition :
            LET state == load_full_game_state(file, choice, clock)
                scores == state.scores
            IN /\ file' = state
               /\ clock' = IF file.exists THEN clock ELSE clock + 1
               /\ IF \E i \in 1..Len(scores) : scores[i].uid = valid.uid
                  THEN /\ responses' = Respond(proc, valid.uid, 409,
                                "Score already submitted for this device.")
                       /\ UNCHANGED req
                  ELSE /\ req' = [req EXCEPT ![proc] =
                                     [pc |-> "entry", uid |-> valid.uid,
                                      scores |-> scores,
                                      entry |-> [uid |-> valid.uid,
                                                 name |-> valid.name,
                                                 tries |-> valid.tries,
                                                 duration |-> valid.duration]]]
                       /\ UNCHANGED responses
    /\ UNCHANGED <<ev, games, db, sess, result, score, engine>>

\* post_submit, lines 354-362: the entry with the time read now, appended to
\* the scores load_scores returned, and the sort
SubmitEntry(proc) ==
    /\ req[proc].pc = "entry"
    /\ LET r == req[proc]
           entry == [uid |-> r.entry.uid, name |-> r.entry.name,
                     tries |-> r.entry.tries, duration |-> r.entry.duration,
                     timestamp |-> clock]
       IN req' = [req EXCEPT ![proc] =
                     [pc |-> "save", uid |-> r.uid,
                      scores |-> sort_scores(Append(r.scores, entry))]]
    /\ clock' = clock + 1
    /\ UNCHANGED <<ev, games, db, sess, result, file, responses, score, engine>>

\* mutant of save_scores: the file is rewritten from the scores alone
save_scoresDropPlayers(state, scores) ==
    [state EXCEPT !.scores = scores, !.players = <<>>]

\* save_scores: the state as loaded under the lock, its scores replaced
save_scores(state, scores) == [state EXCEPT !.scores = scores]

\* save_scores and the 200 response
SubmitSave(proc) ==
    /\ req[proc].pc = "save"
    /\ \E choice \in choose_word_definition :
       LET state == load_full_game_state(file, choice, clock) IN
       /\ file' = save_scores(state, req[proc].scores)
       /\ clock' = IF file.exists THEN clock ELSE clock + 1
    /\ responses' = Respond(proc, req[proc].uid, 200, "")
    /\ req' = [req EXCEPT ![proc] = NoReq]
    /\ UNCHANGED <<ev, games, db, sess, result, score, engine>>

\* game_state.json after one submission and one state upsert in game 1
PlayedFile ==
    {[exists |-> TRUE, gameUid |-> 1, word |-> choice.word,
      definition |-> choice.definition,
      scores |-> <<[uid |-> "d1", name |-> "Ann", tries |-> 3,
                    duration |-> 50, timestamp |-> 2]>>,
      players |-> PutRow(<<>>, "u1", [name |-> "Ann", currentRow |-> 1])] :
        choice \in choose_word_definition}

\* no game_state.json yet, or the file of a game that has been played
InitApp ==
    /\ ev = NoEval
    /\ games = <<>>
    /\ db = <<>>
    /\ sess = <<>>
    /\ \/ file = NoFile /\ clock = 1
       \/ file \in PlayedFile /\ clock = 3
    /\ result = NoResult
    /\ req = [p \in Procs |-> NoReq]
    /\ responses = <<>>
    /\ score = {}
    /\ engine = "sqlite"

NextApp ==
    \/ \E proc \in Procs, payload \in SubmitPayloads : SubmitBegin(proc, payload)
    \/ \E proc \in Procs : SubmitEntry(proc)
    \/ \E proc \in Procs : SubmitSave(proc)

SpecApp == InitApp /\ [][NextApp]_vars

(***************************************************************************)
(* game_store.py under concurrent requests.  Every request has a session   *)
(* of its own, with autoflush on (db.py line 51 keeps the default): before *)
(* a SELECT the session sends what it has pending.  A request is one step  *)
(* per round trip to the database:                                         *)
(*   line 172  the SELECT of get_player_state_record;                      *)
(*   line 282  the SELECT of has_name_conflict;                            *)
(*   line 211  session.flush(): the INSERT of a new player_state row;      *)
(*   line 249  the autoflush before record.guesses is loaded: the UPDATE   *)
(*             of a changed name;                                          *)
(*   line 249  the SELECT of record.guesses;                               *)
(*   line 225  the autoflush before record.keyboard_statuses is loaded:    *)
(*             the INSERT of the guess appended at line 260;               *)
(*   line 225  the SELECT of record.keyboard_statuses;                     *)
(*   line 277  the flush of session.commit(): what is left (keyboard       *)
(*             statuses, is_winner, finish_time);                          *)
(*   line 277  the COMMIT.                                                 *)
(* A unique constraint of models.py is checked when the statement reaches  *)
(* the database.  The IntegrityError of the flush at line 211 is caught,   *)
(* the session rolled back and the name conflict raised; nothing catches   *)
(* the others.  A flush that fails rolls the transaction back before the   *)
(* exception leaves it.  An exception raised by apply_guess_for_player     *)
(* itself (lines 250-257, 284-289) leaves the transaction open, with what  *)
(* the session has sent, until the caller closes the session.  What a      *)
(* session has sent and not committed is not seen by the SELECTs of the    *)
(* other sessions, and it makes their statements wait: on SQLite every     *)
(* statement that writes, on PostgreSQL the statements that touch the same *)
(* row or the same unique key.  SQLite gives a waiting statement up after  *)
(* the driver's timeout ("database is locked").                            *)
(***************************************************************************)
TxnGuessPool == {<<"A", "B">>, <<"A", "A">>}

\* the databases db.py can be bound to: the default, and a server named by
\* db_config.json or WORDLY_DB_URL
Engines == {"sqlite", "postgresql"}

IntegrityError == "IntegrityError"
OperationalError == "OperationalError"

NoTxn == [pc |-> "idle"]

\* the player_state row a session has loaded, as a row (base is {} or {row})
BaseRow(base) == CHOOSE row \in base : TRUE

\* mutant of GuessNumberTaken: player_guess without its unique constraint
GuessNumberTakenNever(cur, old, row) == FALSE

\* uq_player_guess_player_state_id_guess_number fails for a pending INSERT
GuessNumberTaken(cur, old, row) ==
    \E g \in row.guesses \ old.guesses : \E h \in cur.guesses :
        g.guess_number = h.guess_number

\* uq_player_keyboard_status_player_state_id_letter fails for a pending INSERT
LetterTaken(cur, old, row) ==
    \E letter \in DOMAIN row.keyboard_statuses \ DOMAIN old.keyboard_statuses :
        letter \in DOMAIN cur.keyboard_statuses

\* TRUE when the flush of session.commit() raises IntegrityError: of the
\* statements left for it only the INSERT of a keyboard status can meet a
\* unique constraint.  The keyboard statuses of a row this session has
\* inserted are the first ones of that row.
CommitViolates(rows, key, base, row) ==
    IF base = {}
    THEN FALSE
    ELSE LetterTaken(rows[key], BaseRow(base), row)

\* the committed row once the session has committed: the columns it changed
\* UPDATEd, its new player_guess and player_keyboard_status rows INSERTed
Flush(rows, key, base, row) ==
    IF base = {} THEN row
    ELSE LET old == BaseRow(base)
             cur == rows[key]
             changed == {letter \in DOMAIN row.keyboard_statuses :
                            \/ letter \notin DOMAIN old.keyboard_statuses
                            \/ row.keyboard_statuses[letter]
                                   # old.keyboard_statuses[letter]}
         IN [name |-> IF row.name # old.name THEN row.name ELSE cur.name,
             is_winner |-> IF row.is_winner # old.is_winner
                           THEN row.is_winner ELSE cur.is_winner,
             start_time |-> cur.start_time,
             finish_time |-> IF row.finish_time # old.finish_time
                             THEN row.finish_time ELSE cur.finish_time,
             guesses |-> cur.guesses \cup (row.guesses \ old.guesses),
             keyboard_statuses |->
                 [letter \in DOMAIN cur.keyboard_statuses \cup changed |->
                     IF letter \in changed THEN row.keyboard_statuses[letter]
                     ELSE cur.keyboard_statuses[letter]]]

TxnRespond(proc, op, key, error) ==
    Append(responses, [proc |-> proc, op |-> op, key |-> key, error |-> error])

\* the numbers of the guesses the session of request r has appended
NewNumbers(r) ==
    {g.guess_number :
        g \in r.row.guesses \ (IF r.base = {} THEN {} ELSE BaseRow(r.base).guesses)}

\* request r has sent a statement that keeps the other sessions from the
\* name: the INSERT of a row of that name, or the UPDATE of a row to or
\* from that name
HoldsName(r, gid, name) ==
    /\ r.key[1] = gid
    /\ \/ r.sent \cap {"row", "name"} # {} /\ r.row.name = name
       \/ "name" \in r.sent /\ BaseRow(r.base).name = name

\* the statement stmt of request proc has to wait: another session has sent
\* a statement it collides with and has not committed or rolled back yet.
\* stmt is "row" (INSERT of the player_state row key under name), "name"
\* (UPDATE of the name of row key), "guess" (INSERT of the guess numbered
\* number of row key) or "rest" (the keyboard statuses and the UPDATE of
\* is_winner and finish_time of row key).
Held(proc, stmt, key, name, number) ==
    \E p \in Procs \ {proc} :
        LET r == req[p] IN
        /\ r.pc # "idle"
        /\ r.sent # {}
        /\ \/ engine = "sqlite"
           \/ /\ stmt = "row"
              /\ \/ "row" \in r.sent /\ r.key = key
                 \/ HoldsName(r, key[1], name)
           \/ /\ stmt = "name"
              /\ \/ r.key = key
                 \/ HoldsName(r, key[1], name)
           \/ /\ stmt = "guess"
              /\ r.key = key
              /\ \/ "name" \in r.sent
                 \/ "guess" \in r.sent /\ number \in NewNumbers(r)
           \/ /\ stmt = "rest"
              /\ r.key = key
              /\ r.sent \cap {"name", "rest"} # {}

\* the requests that have not been answered yet
Unanswered == Cardinality({p \in Procs : req[p].pc \notin {"idle", "raised"}})

\* a player_state row whose guesses and keyboard_statuses are not loaded yet
Unloaded(row) == [row EXCEPT !.guesses = {}, !.keyboard_statuses = <<>>]

\* the session's record as apply_guess_for_player works on it: the one row
\* the session holds, under the requested name
OwnRows(r) == PutRow(<<>>, r.key, r.row)

\* apply_guess_for_player, line 172: the SELECT of get_player_state_record
GuessSelect(proc, uid, name, guess) ==
    /\ req[proc].pc = "idle"
    /\ Len(responses) + Unanswered < MaxRequests
    /\ LET key == <<ActiveId, uid>>
           found == get_player_state_record(db, ActiveId, uid)
           base == {Unloaded(row) : row \in found}
       IN req' = [req EXCEPT ![proc] =
                     [pc |-> IF found # {} /\ BaseRow(found).name = name
                             THEN "guesses" ELSE "conflict",
                      key |-> key, name |-> name, guess |-> guess,
                      base |-> base,
                      row |-> IF base = {} THEN None ELSE BaseRow(base),
                      sent |-> {}]]
    /\ result' = [NoResult EXCEPT !.op = "get_player_state_record", !.uid = uid,
                                  !.guess = guess]
    /\ UNCHANGED <<ev, games, db, sess, clock, file, responses, score, engine>>

\* line 282: the SELECT of has_name_conflict, and what follows it without
\* another statement: the raise, the rename, or the new PlayerState
GuessConflict(proc) ==
    /\ req[proc].pc = "conflict"
    /\ LET r == req[proc] IN
       IF has_name_conflict(db, r.key[1], r.key[2], r.name)
       THEN /\ responses' = TxnRespond(proc, "apply_guess_for_player", r.key,
                                       NameInUse)
            /\ req' = [req EXCEPT ![proc].pc = "raised"]
            /\ UNCHANGED clock
       ELSE IF r.base # {}
       THEN /\ req' = [req EXCEPT ![proc].pc = "rename",
                                  ![proc].row.name = r.name]
            /\ UNCHANGED <<clock, responses>>
       ELSE /\ req' = [req EXCEPT ![proc].pc = "flush",
                                  ![proc].row = NewRecord(r.name, clock)]
            /\ clock' = clock + 1
            /\ UNCHANGED responses
    /\ result' = [NoResult EXCEPT !.op = "has_name_conflict",
                                  !.uid = req[proc].key[2]]
    /\ UNCHANGED <<ev, games, db, sess, file, score, engine>>

\* lines 210-216: session.flush() sends the INSERT of the new row; on an
\* IntegrityError the session is rolled back and the name conflict raised
GuessFlush(proc) ==
    /\ req[proc].pc = "flush"
    /\ LET r == req[proc] IN
       /\ ~Held(proc, "row", r.key, r.name, 0)
       /\ IF InsertFails(db, r.key, r.name)
          THEN /\ responses' = TxnRespond(proc, "apply_guess_for_player", r.key,
                                          NameInUse)
               /\ req' = [req EXCEPT ![proc] = NoTxn]
          ELSE /\ req' = [req EXCEPT ![proc].pc = "guesses",
                                     ![proc].sent = {"row"}]
               /\ UNCHANGED responses
    /\ result' = [NoResult EXCEPT !.op = "flush", !.uid = req[proc].key[2]]
    /\ UNCHANGED <<ev, games, db, sess, clock, file, score, engine>>

\* line 249, the autoflush: before record.guesses is loaded the session
\* sends the UPDATE of the name assigned at line 193; its IntegrityError
\* rolls the transaction back and leaves the function
GuessRename(proc) ==
    /\ req[proc].pc = "rename"
    /\ LET r == req[proc] IN
       /\ ~Held(proc, "name", r.key, r.row.name, 0)
       /\ IF NameTaken(db, r.key, r.row.name)
          THEN /\ responses' = TxnRespond(proc, "apply_guess_for_player", r.key,
                                          IntegrityError)
               /\ req' = [req EXCEPT ![proc] = NoTxn]
          ELSE /\ req' = [req EXCEPT ![proc].pc = "guesses",
                                     ![proc].sent = @ \cup {"name"}]
               /\ UNCHANGED responses
    /\ result' = [NoResult EXCEPT !.op = "rename", !.uid = req[proc].key[2]]
    /\ UNCHANGED <<ev, games, db, sess, clock, file, score, engine>>

\* lines 249-257: the SELECT of record.guesses, then the checks of the
\* sequence, the finish time and the number of guesses; a check that fails
\* raises with the transaction open
GuessLoad(proc) ==
    /\ req[proc].pc = "guesses"
    /\ LET r == req[proc]
           guesses == IF r.base = {} THEN {} ELSE db[r.key].guesses
           loaded == [r EXCEPT !.row.guesses = guesses,
                               !.base = {[row EXCEPT !.guesses = guesses] :
                                            row \in r.base}]
           out == apply_guess_for_player(OwnRows(loaded), OwnRows(loaded),
                                         OwnRows(loaded), clock,
                                         games[r.key[1]], r.key[1], r.key[2],
                                         r.name, r.guess)
       IN /\ IF out.error # "none"
             THEN /\ responses' = TxnRespond(proc, "apply_guess_for_player",
                                             r.key, out.error)
                  /\ req' = [req EXCEPT ![proc] = [loaded EXCEPT !.pc = "raised"]]
             ELSE /\ req' = [req EXCEPT ![proc] = [loaded EXCEPT !.pc = "append"]]
                  /\ UNCHANGED responses
          /\ result' = [op |-> "guesses", uid |-> r.key[2], guess |-> r.guess,
                        error |-> out.error,
                        message |-> IF out.error = "none" THEN ""
                                    ELSE out.message]
    /\ UNCHANGED <<ev, games, db, sess, clock, file, score, engine>>

\* lines 259-267: the guess is evaluated and appended; line 225, the
\* autoflush: before record.keyboard_statuses is loaded the session sends
\* the INSERT of the guess; its IntegrityError rolls the transaction back
\* and leaves the function
GuessAppend(proc) ==
    /\ req[proc].pc = "append"
    /\ LET r == req[proc]
           game == games[r.key[1]]
           next_guess_number == Cardinality(r.row.guesses) + 1
           appended == AppendGuess(r.row, next_guess_number, r.guess,
                                   evaluate_guess(r.guess, game.word))
       IN /\ ~Held(proc, "guess", r.key, r.name, next_guess_number)
          /\ IF r.base # {} /\ GuessNumberTaken(db[r.key], BaseRow(r.base),
                                                appended)
             THEN /\ responses' = TxnRespond(proc, "apply_guess_for_player",
                                             r.key, IntegrityError)
                  /\ req' = [req EXCEPT ![proc] = NoTxn]
             ELSE /\ req' = [req EXCEPT ![proc].pc = "hints",
                                        ![proc].row = appended,
                                        ![proc].sent = @ \cup {"guess"}]
                  /\ UNCHANGED responses
    /\ result' = [NoResult EXCEPT !.op = "append", !.uid = req[proc].key[2]]
    /\ UNCHANGED <<ev, games, db, sess, clock, file, score, engine>>

\* line 225: the SELECT of record.keyboard_statuses; lines 226-237 and
\* 269-275: the hints and the finish are set in the session
GuessHints(proc) ==
    /\ req[proc].pc = "hints"
    /\ LET r == req[proc]
           game == games[r.key[1]]
           hints == IF r.base = {} THEN <<>> ELSE db[r.key].keyboard_statuses
           record == [r.row EXCEPT !.keyboard_statuses = hints]
           hinted == _upsert_keyboard_statuses(record, r.guess,
                                               evaluate_guess(r.guess, game.word))
           done == FinishIfOver(hinted, r.guess = game.word,
                                Cardinality(r.row.guesses), game.max_guesses,
                                clock)
       IN /\ req' = [req EXCEPT ![proc].pc = "commit",
                                ![proc].row = done.row,
                                ![proc].base = {[row EXCEPT
                                                    !.keyboard_statuses = hints] :
                                                   row \in r.base}]
          /\ clock' = done.clock
    /\ result' = [NoResult EXCEPT !.op = "keyboard_statuses",
                                  !.uid = req[proc].key[2]]
    /\ UNCHANGED <<ev, games, db, sess, file, responses, score, engine>>

\* line 277, the flush of session.commit(): the keyboard statuses and the
\* UPDATE of is_winner and finish_time are sent
GuessFinish(proc) ==
    /\ req[proc].pc = "commit"
    /\ LET r == req[proc] IN
       /\ ~Held(proc, "rest", r.key, r.row.name, 0)
       /\ IF CommitViolates(db, r.key, r.base, r.row)
          THEN /\ responses' = TxnRespond(proc, "apply_guess_for_player", r.key,
                                          IntegrityError)
               /\ req' = [req EXCEPT ![proc] = NoTxn]
          ELSE /\ req' = [req EXCEPT ![proc].pc = "committing",
                                     ![proc].sent = @ \cup {"rest"}]
               /\ UNCHANGED responses
    /\ result' = [NoResult EXCEPT !.op = "finish", !.uid = req[proc].key[2]]
    /\ UNCHANGED <<ev, games, db, sess, clock, file, score, engine>>

\* line 277, the COMMIT of session.commit(), and the return of line 278
GuessCommit(proc) ==
    /\ req[proc].pc = "committing"
    /\ LET r == req[proc] IN
       /\ db' = PutRow(db, r.key, Flush(db, r.key, r.base, r.row))
       /\ responses' = TxnRespond(proc, "apply_guess_for_player", r.key, "none")
    /\ req' = [req EXCEPT ![proc] = NoTxn]
    /\ result' = [NoResult EXCEPT !.op = "commit", !.uid = req[proc].key[2]]
    /\ UNCHANGED <<ev, games, sess, clock, file, score, engine>>

\* the caller closes the session after the exception: what the session has
\* sent is rolled back
GuessClose(proc) ==
    /\ req[proc].pc = "raised"
    /\ req' = [req EXCEPT ![proc] = NoTxn]
    /\ result' = [NoResult EXCEPT !.op = "close", !.uid = req[proc].key[2]]
    /\ UNCHANGED <<ev, games, db, sess, clock, file, responses, score, engine>>

\* the statement the next step of request r sends, "" when it is a SELECT
NextStatement(r) ==
    CASE r.pc = "flush" -> "row"
      [] r.pc = "rename" -> "name"
      [] r.pc = "append" -> "guess"
      [] r.pc = "commit" -> "rest"
      [] OTHER -> ""

\* SQLite: the statement has waited for the writing session longer than the
\* timeout of the driver; the OperationalError rolls the transaction back
\* and leaves the function
GuessTimeout(proc) ==
    /\ req[proc].pc # "idle"
    /\ engine = "sqlite"
    /\ NextStatement(req[proc]) # ""
    /\ Held(proc, NextStatement(req[proc]), req[proc].key, req[proc].name, 0)
    /\ responses' = TxnRespond(proc, "apply_guess_for_player", req[proc].key,
                               OperationalError)
    /\ req' = [req EXCEPT ![proc] = NoTxn]
    /\ result' = [NoResult EXCEPT !.op = "timeout", !.uid = req[proc].key[2]]
    /\ UNCHANGED <<ev, games, db, sess, clock, file, score, engine>>

\* the committed rows after the first player has made all guesses but the
\* last one, none of them right
PlayedRows ==
    PutRow(<<>>, <<1, "u1">>,
           [name |-> "Ann", is_winner |-> FALSE,
            start_time |-> Some(1), finish_time |-> None,
            guesses |-> {[guess_number |-> n, guess_text |-> <<"A", "A">>,
                          statuses |-> evaluate_guess(<<"A", "A">>, <<"A", "B">>)] :
                            n \in 1..(MAX_GUESSES - 1)},
            keyboard_statuses |-> [letter \in {"A"} |-> "correct"]])

\* the state after get_active_game has created the first game
InitTxn ==
    /\ ev = NoEval
    /\ \E choice \in choose_word_definition : games = <<NewGame(1, choice)>>
    /\ db = <<>>
    /\ clock = 1
    /\ sess = <<>>
    /\ result = NoResult
    /\ file = NoFile
    /\ req = [p \in Procs |-> NoTxn]
    /\ responses = <<>>
    /\ score = {}
    /\ engine \in Engines

NextTxn ==
    \/ \E proc \in Procs, uid \in Uids, name \in Names, guess \in TxnGuessPool :
           GuessSelect(proc, uid, name, guess)
    \/ \E proc \in Procs : GuessConflict(proc)
    \/ \E proc \in Procs : GuessFlush(proc)
    \/ \E proc \in Procs : GuessRename(proc)
    \/ \E proc \in Procs : GuessLoad(proc)
    \/ \E proc \in Procs : GuessAppend(proc)
    \/ \E proc \in Procs : GuessHints(proc)
    \/ \E proc \in Procs : GuessFinish(proc)
    \/ \E proc \in Procs : GuessCommit(proc)
    \/ \E proc \in Procs : GuessClose(proc)
    \/ \E proc \in Procs : GuessTimeout(proc)

SpecTxn == InitTxn /\ [][NextTxn]_vars

\* the same requests on a game whose first player has one guess left
InitLastGuess ==
    /\ ev = NoEval
    /\ \E choice \in choose_word_definition : games = <<NewGame(1, choice)>>
    /\ db = PlayedRows
    /\ clock = 2
    /\ sess = <<>>
    /\ result = NoResult
    /\ file = NoFile
    /\ req = [p \in Procs |-> NoTxn]
    /\ responses = <<>>
    /\ score = {}
    /\ engine \in Engines

SpecLastGuess == InitLastGuess /\ [][NextTxn]_vars

(***************************************************************************)
(* The game table under concurrent requests: get_active_game,              *)
(* require_active_game and the reset, which is create_game.  games holds   *)
(* the committed rows in the order in which they were committed.  A row    *)
(* has the created_at that the default of models.py line 33 read from the  *)
(* client's clock when session.commit() flushed the Game, and a uid no     *)
(* other game has (the model takes the same reading for both).  The lookup *)
(* of line 60 returns the committed row of the greatest created_at.        *)
(* create_game is three steps: the Game is built and stamped; the INSERT   *)
(* is sent; the COMMIT.  Other requests run between them, so two games can *)
(* be committed in the other order than they were stamped.  On SQLite an   *)
(* INSERT waits while another session has inserted and not committed, and  *)
(* is given up after the driver's timeout.  get_active_game is one SELECT  *)
(* when a game exists; when none does, create_game follows the SELECT.     *)
(***************************************************************************)
GameMismatch == "GameMismatchError"

\* the uid a client sends that no game ever had
NoGameUid == 0

\* create_game, lines 46-54, and the default of created_at: the Game that
\* the flush inserts; now is the reading of the clock
create_game(now, choice) ==
    [uid |-> now, word |-> choice.word, definition |-> choice.definition,
     max_guesses |-> MAX_GUESSES, word_length |-> Len(choice.word),
     created_at |-> now]

\* the comparison of require_active_game: the error raised and the game
\* that is returned or carried by the error
require_active_game(active_game, game_uid) ==
    [error |-> IF game_uid # active_game.uid THEN GameMismatch ELSE "none",
     game |-> active_game.uid]

\* the response of a lookup: count is the number of committed games when it
\* returns, created tells that this call inserted the game it returns
GamesRespond(proc, op, arg, out, count, created) ==
    Append(responses, [proc |-> proc, op |-> op, arg |-> arg,
                       game |-> out.game, error |-> out.error,
                       count |-> count, created |-> created])

\* select(Game).order_by(Game.created_at.desc()), first row
Newest(table) ==
    CHOOSE game \in Range(table) :
        \A other \in Range(table) : game.created_at >= other.created_at

\* get_active_game: the SELECT, and the return when it finds a game
GetActiveBegin(proc) ==
    /\ req[proc].pc = "idle"
    /\ Len(responses) + InFlight < MaxRequests
    /\ IF games # <<>>
       THEN /\ responses' = GamesRespond(proc, "get_active_game", NoGameUid,
                               [error |-> "none", game |-> Newest(games).uid],
                               Len(games), FALSE)
            /\ UNCHANGED req
       ELSE /\ req' = [req EXCEPT ![proc] =
                         [pc |-> "create", op |-> "get_active_game",
                          arg |-> NoGameUid]]
            /\ UNCHANGED responses
    /\ result' = [NoResult EXCEPT !.op = "get_active_game"]
    /\ UNCHANGED <<ev, games, db, sess, clock, file, score, engine>>

\* require_active_game: the SELECT of its get_active_game, and the
\* comparison when that finds a game
RequireBegin(proc, game_uid) ==
    /\ req[proc].pc = "idle"
    /\ Len(responses) + InFlight < MaxRequests
    /\ IF games # <<>>
       THEN /\ responses' = GamesRespond(proc, "require_active_game", game_uid,
                               require_active_game(Newest(games), game_uid),
                               Len(games), FALSE)
            /\ UNCHANGED req
       ELSE /\ req' = [req EXCEPT ![proc] =
                         [pc |-> "create", op |-> "require_active_game",
                          arg |-> game_uid]]
            /\ UNCHANGED responses
    /\ result' = [NoResult EXCEPT !.op = "require_active_game"]
    /\ UNCHANGED <<ev, games, db, sess, clock, file, score, engine>>

\* the create_game of a get_active_game that found no game: the Game is
\* built and, at the flush of session.commit(), stamped
BootstrapCreate(proc) ==
    /\ req[proc].pc = "create"
    /\ \E choice \in choose_word_definition :
           req' = [req EXCEPT ![proc] =
                      [pc |-> "insert", op |-> req[proc].op,
                       arg |-> req[proc].arg,
                       game |-> create_game(clock, choice)]]
    /\ clock' = clock + 1
    /\ result' = [NoResult EXCEPT !.op = "create_game"]
    /\ UNCHANGED <<ev, games, db, sess, file, responses, score, engine>>

\* the reset: create_game on the session of the request; the Game is built
\* and, at the flush of session.commit(), stamped
Reset(proc) ==
    /\ req[proc].pc = "idle"
    /\ Len(responses) + InFlight < MaxRequests
    /\ \E choice \in choose_word_definition :
           req' = [req EXCEPT ![proc] =
                      [pc |-> "insert", op |-> "create_game",
                       arg |-> NoGameUid,
                       game |-> create_game(clock, choice)]]
    /\ clock' = clock + 1
    /\ result' = [NoResult EXCEPT !.op = "create_game"]
    /\ UNCHANGED <<ev, games, db, sess, file, responses, score, engine>>

\* SQLite: another session has inserted a game and not committed it
InsertHeld(proc) ==
    /\ engine = "sqlite"
    /\ \E p \in Procs \ {proc} : req[p].pc = "commit"

\* line 55, the flush of session.commit(): the INSERT of the game is sent
CreateInsert(proc) ==
    /\ req[proc].pc = "insert"
    /\ ~InsertHeld(proc)
    /\ req' = [req EXCEPT ![proc].pc = "commit"]
    /\ result' = [NoResult EXCEPT !.op = "insert"]
    /\ UNCHANGED <<ev, games, db, sess, clock, file, responses, score, engine>>

\* line 55, the COMMIT of session.commit(), and the return of the game
\* created (get_active_game returns it without another SELECT)
CreateCommit(proc) ==
    /\ req[proc].pc = "commit"
    /\ LET r == req[proc] IN
       /\ games' = Append(games, r.game)
       /\ responses' = GamesRespond(proc, r.op, r.arg,
                           IF r.op = "require_active_game"
                           THEN require_active_game(r.game, r.arg)
                           ELSE [error |-> "none", game |-> r.game.uid],
                           Len(games) + 1, TRUE)
    /\ req' = [req EXCEPT ![proc] = NoTxn]
    /\ result' = [NoResult EXCEPT !.op = "commit"]
    /\ UNCHANGED <<ev, db, sess, clock, file, score, engine>>

\* SQLite: the INSERT has waited longer than the timeout of the driver; the
\* OperationalError leaves create_game and no game is inserted
CreateTimeout(proc) ==
    /\ req[proc].pc = "insert"
    /\ InsertHeld(proc)
    /\ responses' = GamesRespond(proc, req[proc].op, req[proc].arg,
                        [error |-> OperationalError, game |-> NoGameUid],
                        Len(games), FALSE)
    /\ req' = [req EXCEPT ![proc] = NoTxn]
    /\ result' = [NoResult EXCEPT !.op = "timeout"]
    /\ UNCHANGED <<ev, games, db, sess, clock, file, score, engine>>

\* a database without a game, or with the game rebuild_database inserts
InitGames ==
    /\ ev = NoEval
    /\ \/ games = <<>> /\ clock = 1
       \/ /\ \E choice \in choose_word_definition :
                 games = <<create_game(1, choice)>>
          /\ clock = 2
    /\ db = <<>>
    /\ sess = <<>>
    /\ result = NoResult
    /\ file = NoFile
    /\ req = [p \in Procs |-> NoTxn]
    /\ responses = <<>>
    /\ score = {}
    /\ engine \in Engines

NextGames ==
    \/ \E proc \in Procs : GetActiveBegin(proc)
    \/ \E proc \in Procs :
           \E game_uid \in {NoGameUid} \cup {game.uid : game \in Range(games)} :
               RequireBegin(proc, game_uid)
    \/ \E proc \in Procs : BootstrapCreate(proc)
    \/ \E proc \in Procs : Reset(proc)
    \/ \E proc \in Procs : CreateInsert(proc)
    \/ \E proc \in Procs : CreateCommit(proc)
    \/ \E proc \in Procs : CreateTimeout(proc)

SpecGames == InitGames /\ [][NextGames]_vars

(***************************************************************************)
(* app.py: the guess, state and admin-reset endpoints on game_state.json.  *)
(* post_state loads the players, checks the name and saves in two locked   *)
(* regions, so it is two steps; post_guess loads the word and then waits   *)
(* for the dictionary service, so it is two steps as well; the GET         *)
(* handlers and post_admin_reset touch the file once.  A request carries a *)
(* gameUid; no handler reads it.                                           *)
(***************************************************************************)
SiteUids == {"u1", "u2"}

\* the gameUid the clients send: the token of the first game, which is
\* stale once a reset has been served
SentGameUids == {1}

JObj(fields) == [t |-> "obj", v |-> fields]

\* str.upper() on a text
UpperWord(text) == [i \in 1..Len(text) |-> Upper(text[i])]

\* admin_code.txt as deployed
AdminCodeFile == [exists |-> TRUE, text |-> " FSQ2023 "]

StripCode(s) == IF s = " FSQ2023 " THEN "FSQ2023" ELSE s

\* load_admin_code: the code, or the FileNotFoundError
load_admin_code ==
    IF ~AdminCodeFile.exists THEN [error |-> "FileNotFoundError", value |-> ""]
    ELSE [error |-> "", value |-> StripCode(AdminCodeFile.text)]

\* sanitize_state_payload on the keys the clients of the model send
sanitize_state_payload(state) ==
    IF state.t # "obj" THEN [error |-> "state must be an object", value |-> <<>>]
    ELSE IF "currentRow" \in DOMAIN state.v
         THEN LET row == sanitize_int(state.v.currentRow, "currentRow") IN
              IF row.error # "" THEN [error |-> row.error, value |-> <<>>]
              ELSE [error |-> "", value |-> [currentRow |-> row.value]]
         ELSE [error |-> "", value |-> <<>>]

\* build_user_state: the name, then every key of the state but "name"
build_user_state(name, state) ==
    [key \in {"name"} \cup DOMAIN state |->
        IF key = "name" THEN name ELSE state[key]]

\* mutant of NameConflict: the loop does not skip the player's own entry
NameConflictAny(players, uid, name) ==
    \E existing_uid \in DOMAIN players : players[existing_uid].name = name

\* the loop of post_state over players.items()
NameConflict(players, uid, name) ==
    \E existing_uid \in DOMAIN players :
        existing_uid # uid /\ players[existing_uid].name = name

NameInUseMessage(name) ==
    "The name " \o name \o " is already in use. Please choose another"

GuessPayloads ==
    {[guess |-> JStr(text), gameUid |-> uid] :
        text \in {<<"a", "b">>, <<"a", "a">>, <<"a">>}, uid \in SentGameUids}
    \cup {[guess |-> JNull, gameUid |-> 1]}

StatePayloads ==
    {[uid |-> JStr(uid), name |-> JStr(name), gameUid |-> game,
      state |-> JObj([currentRow |-> JInt(1)])] :
        uid \in SiteUids, name \in Names, game \in SentGameUids}
    \cup {[uid |-> JStr("u2"), name |-> JStr("Ann"), gameUid |-> 1, state |-> JNull],
          [uid |-> JNull, name |-> JStr("Ann"), gameUid |-> 1,
           state |-> JObj([currentRow |-> JInt(1)])]}

ResetPayloads == {[code |-> JStr("FSQ2023")], [code |-> JStr("guess")],
                  [code |-> JNull]}

\* the record of an answered request: gameUid is the identity the request
\* carried, active the identity of the game the handler worked on
SiteRespond(op, uid, name, gameUid, active, status, error) ==
    Append(responses, [op |-> op, uid |-> uid, name |-> name,
                       gameUid |-> gameUid, active |-> active,
                       status |-> status, error |-> error])

\* an exception no handler catches: the server answers 500
Unhandled == 500

(***************************************************************************)
(* app.py: post_guess with the dictionary lookup of is_valid_word.  What   *)
(* urlopen does is drawn: it returns a response (urllib hands back 2xx     *)
(* responses only, HTTPErrorProcessor raises for the rest), or it raises   *)
(* HTTPError, URLError, TimeoutError, or the OSError that                  *)
(* HTTPConnection.getresponse lets through when the peer drops the         *)
(* connection.  result keeps the guess of the last request and the lookup  *)
(* made for it: op is "is_valid_word" when the oracle was asked and        *)
(* "post_guess" when the request ended at the length check.                *)
(***************************************************************************)
Outcome(kind, code) == [kind |-> kind, code |-> code]

OracleOutcomes ==
    {Outcome("response", 200), Outcome("response", 204),
     Outcome("HTTPError", 404), Outcome("HTTPError", 500),
     Outcome("URLError", 0), Outcome("TimeoutError", 0),
     Outcome("ConnectionResetError", 0)}

\* is_valid_word: the answer, or the exception that leaves the function
is_valid_word(outcome) ==
    CASE outcome.kind = "response" ->
             [raised |-> "", value |-> outcome.code = 200]
      [] outcome.kind = "HTTPError" ->
             [raised |-> "", value |-> outcome.code # 404]
      [] outcome.kind \in {"URLError", "TimeoutError", "ValueError"} ->
             [raised |-> "", value |-> TRUE]
      [] OTHER -> [raised |-> outcome.kind, value |-> FALSE]

NoLookup == [op |-> "", guess |-> <<>>, outcome |-> Outcome("", 0)]

\* mutant of InvalidGuessLength: only guesses that are too short are refused
InvalidGuessLengthShort(guess, word) == Len(guess) < Len(word)

\* the length check of post_guess
InvalidGuessLength(guess, word) == Len(guess) # Len(word)

\* post_guess, lines 316-322: the text, the word of the game loaded (the
\* lock is released when load_word returns), the length check
GuessLoadWord(proc, payload) ==
    /\ req[proc].pc = "idle"
    /\ Len(responses) + InFlight < MaxRequests
    /\ LET guess == sanitize_text(payload.guess, "guess") IN
       IF guess.error # ""
       THEN /\ responses' = SiteRespond("guess", "", "", payload.gameUid, 0,
                                        Unhandled, guess.error)
            /\ result' = NoLookup
            /\ UNCHANGED <<file, clock, req>>
       ELSE \E choice \in choose_word_definition :
            LET state == load_full_game_state(file, choice, clock)
                text == UpperWord(guess.value)
            IN /\ file' = state
               /\ clock' = IF file.exists THEN clock ELSE clock + 1
               /\ IF InvalidGuessLength(text, state.word)
                  THEN /\ responses' = SiteRespond("guess", "", "",
                                           payload.gameUid, state.gameUid, 400,
                                           "Invalid guess length.")
                       /\ result' = [NoLookup EXCEPT !.op = "post_guess",
                                                     !.guess = text]
                       /\ UNCHANGED req
                  ELSE /\ req' = [req EXCEPT ![proc] =
                                     [pc |-> "is_valid_word", guess |-> text,
                                      word |-> state.word,
                                      gameUid |-> payload.gameUid,
                                      active |-> state.gameUid]]
                       /\ result' = NoLookup
                       /\ UNCHANGED responses
    /\ ev' = NoEval
    /\ UNCHANGED <<games, db, sess, score, engine>>

\* post_guess, lines 323-325: is_valid_word returns or raises (outcome is
\* what urlopen did while the handler waited), then the guess is evaluated
\* against the word loaded
PostGuess(proc, outcome) ==
    /\ req[proc].pc = "is_valid_word"
    /\ LET r == req[proc]
           looked == is_valid_word(outcome)
       IN /\ IF looked.raised # ""
             THEN /\ responses' = SiteRespond("guess", "", "", r.gameUid,
                                              r.active, Unhandled, looked.raised)
                  /\ ev' = NoEval
             ELSE IF ~looked.value
             THEN /\ responses' = SiteRespond("guess", "", "", r.gameUid,
                                              r.active, 400, "That is not a word.")
                  /\ ev' = NoEval
             ELSE /\ responses' = SiteRespond("guess", "", "", r.gameUid,
                                              r.active, 200, "")
                  /\ ev' = [guess |-> r.guess, word |-> r.word,
                            statuses |-> evaluate_guess(r.guess, r.word),
                            isCorrect |-> r.guess = r.word, done |-> TRUE]
          /\ result' = [op |-> "is_valid_word", guess |-> r.guess,
                        outcome |-> outcome]
    /\ req' = [req EXCEPT ![proc] = NoReq]
    /\ UNCHANGED <<games, db, sess, clock, file, score, engine>>

\* get_config, get_scores and get_state (with a uid): each loads the game
\* state once, which creates the file when it is missing, and answers 200
GetHandlers == {"get_config", "get_scores", "get_state"}

GetRequest(proc, handler) ==
    /\ req[proc].pc = "idle"
    /\ Len(responses) + InFlight < MaxRequests
    /\ \E choice \in choose_word_definition :
       LET state == load_full_game_state(file, choice, clock) IN
       /\ file' = state
       /\ clock' = IF file.exists THEN clock ELSE clock + 1
       /\ responses' = SiteRespond(handler, "", "", 0, state.gameUid, 200, "")
    /\ UNCHANGED <<ev, games, db, sess, result, req, score, engine>>

\* post_state up to the call of save_players
StateBegin(proc, payload) ==
    /\ req[proc].pc = "idle"
    /\ Len(responses) + InFlight < MaxRequests
    /\ LET uid == sanitize_text(payload.uid, "uid")
           name == sanitize_text(payload.name, "name")
           sanitized == sanitize_state_payload(payload.state)
       IN IF uid.error # "" \/ name.error # ""
          THEN /\ responses' = SiteRespond("state", uid.value, name.value,
                                   payload.gameUid, 0, Unhandled,
                                   IF uid.error # "" THEN uid.error ELSE name.error)
               /\ UNCHANGED <<file, clock, req>>
          ELSE IF sanitized.error # ""
          THEN /\ responses' = SiteRespond("state", uid.value, name.value,
                                   payload.gameUid, 0, 400, sanitized.error)
               /\ UNCHANGED <<file, clock, req>>
          ELSE \E choice \in choose_word_definition :
               LET state == load_full_game_state(file, choice, clock)
                   players == state.players
               IN /\ file' = state
                  /\ clock' = IF file.exists THEN clock ELSE clock + 1
                  /\ IF NameConflict(players, uid.value, name.value)
                     THEN /\ responses' = SiteRespond("state", uid.value,
                                   name.value, payload.gameUid, state.gameUid,
                                   409, NameInUseMessage(name.value))
                          /\ UNCHANGED req
                     ELSE /\ req' = [req EXCEPT ![proc] =
                                 [pc |-> "save_players", uid |-> uid.value,
                                  name |-> name.value,
                                  gameUid |-> payload.gameUid,
                                  players |-> PutRow(players, uid.value,
                                      build_user_state(name.value,
                                                       sanitized.value))]]
                          /\ UNCHANGED responses
    /\ UNCHANGED <<ev, games, db, sess, result, score, engine>>

\* save_players and the 200 response of post_state
StateSave(proc) ==
    /\ req[proc].pc = "save_players"
    /\ \E choice \in choose_word_definition :
       LET state == load_full_game_state(file, choice, clock) IN
       /\ file' = [state EXCEPT !.players = req[proc].players]
       /\ clock' = IF file.exists THEN clock ELSE clock + 1
       /\ responses' = SiteRespond("state", req[proc].uid, req[proc].name,
                                   req[proc].gameUid, state.gameUid, 200, "")
    /\ req' = [req EXCEPT ![proc] = NoReq]
    /\ UNCHANGED <<ev, games, db, sess, result, score, engine>>

\* what post_admin_reset answers: code is the code the request sent, word
\* and definition the ones in the body of the answer (none in an error)
ResetRespond(code, active, status, error, word, definition) ==
    Append(responses, [op |-> "reset", uid |-> "", name |-> "", gameUid |-> 0,
                       active |-> active, status |-> status, error |-> error,
                       code |-> code, word |-> word, definition |-> definition])

\* mutant of InvalidAdminCode: no code is refused
InvalidAdminCodeNever(code, admin_code) == FALSE

\* the comparison of post_admin_reset
InvalidAdminCode(code, admin_code) == code # admin_code

\* post_admin_reset
AdminReset(proc, payload) ==
    /\ req[proc].pc = "idle"
    /\ Len(responses) + InFlight < MaxRequests
    /\ LET code == sanitize_text(payload.code, "code")
           admin_code == load_admin_code
       IN IF code.error # ""
          THEN /\ responses' = ResetRespond(code.value, 0, Unhandled, code.error,
                                            <<>>, "")
               /\ UNCHANGED <<file, clock>>
          ELSE IF admin_code.error # ""
          THEN /\ responses' = ResetRespond(code.value, 0, 500,
                                            "Admin code unavailable.", <<>>, "")
               /\ UNCHANGED <<file, clock>>
          ELSE IF InvalidAdminCode(code.value, admin_code.value)
          THEN /\ responses' = ResetRespond(code.value, 0, 403,
                                            "Invalid admin code.", <<>>, "")
               /\ UNCHANGED <<file, clock>>
          ELSE \E choice \in choose_word_definition :
               /\ file' = build_new_game_state(choice, clock)
               /\ clock' = clock + 1
               /\ responses' = ResetRespond(code.value, clock, 200, "",
                                            choice.word, choice.definition)
    /\ UNCHANGED <<ev, games, db, sess, result, req, score, engine>>

\* no game_state.json yet, or the file of a game that has been played
InitSite ==
    /\ ev = NoEval
    /\ games = <<>>
    /\ db = <<>>
    /\ sess = <<>>
    /\ \/ file = NoFile /\ clock = 1
       \/ file \in PlayedFile /\ clock = 3
    /\ result = NoResult
    /\ req = [p \in Procs |-> NoReq]
    /\ responses = <<>>
    /\ score = {}
    /\ engine = "sqlite"

NextSite ==
    \/ \E proc \in Procs, payload \in GuessPayloads :
           GuessLoadWord(proc, payload)
    \/ \E proc \in Procs, outcome \in OracleOutcomes : PostGuess(proc, outcome)
    \/ \E proc \in Procs, handler \in GetHandlers : GetRequest(proc, handler)
    \/ \E proc \in Procs, payload \in StatePayloads : StateBegin(proc, payload)
    \/ \E proc \in Procs : StateSave(proc)
    \/ \E proc \in Procs, payload \in ResetPayloads : AdminReset(proc, payload)

SpecSite == InitSite /\ [][NextSite]_vars

(***************************************************************************)
(* sort_scores as a function: the lists it is given are drawn from a pool  *)
(* of score entries, among them entries with equal keys and an entry whose *)
(* duration is nan, which post_submit lets into the ledger.                *)
(***************************************************************************)
MaxScores == 3

Entry(uid, tries, duration, timestamp) ==
    [uid |-> uid, name |-> uid, tries |-> tries, duration |-> duration,
     timestamp |-> timestamp]

ScorePool ==
    {Entry("d1", 3, 50, 1), Entry("d2", 2, 70, 2), Entry("d3", 3, 40, 3),
     Entry("d4", 3, 50, 1), Entry("d5", 3, 50, 2), Entry("d6", 3, NaN, 4)}

\* sort_scores(scores)
SortScores ==
    /\ ~ev.done
    /\ ev' = [ev EXCEPT !.sorted = sort_scores(ev.scores), !.done = TRUE]
    /\ UNCHANGED <<games, db, sess, clock, result, file, req, responses, score, engine>>

InitSort ==
    /\ \E n \in 0..MaxScores : \E scores \in [1..n -> ScorePool] :
           ev = [scores |-> scores, sorted |-> <<>>, done |-> FALSE]
    /\ games = <<>>
    /\ db = <<>>
    /\ sess = <<>>
    /\ clock = 1
    /\ result = NoResult
    /\ file = NoFile
    /\ req = <<>>
    /\ responses = <<>>
    /\ score = {}
    /\ engine = "sqlite"

NextSort == SortScores

SpecSort == InitSort /\ [][NextSort]_vars

(***************************************************************************)
(* Properties of the evaluator (SpecEval).                                 *)
(***************************************************************************)
Count(word, letter) == Cardinality({i \in 1..Len(word) : word[i] = letter})

\* positions where guess and word differ
Unmatched(guess, word) == {i \in 1..Len(word) : guess[i] # word[i]}

\* the status the two-pass rule gives position i, stated without the passes
RuleStatus(guess, word, i) ==
    IF guess[i] = word[i] THEN "correct"
    ELSE IF Cardinality({j \in Unmatched(guess, word) :
                            j < i /\ guess[j] = guess[i]})
            < Cardinality({k \in Unmatched(guess, word) : word[k] = guess[i]})
         THEN "present"
         ELSE "absent"

\* C1: evaluate_guess returns one status per position, and it is the status
\* of the two-pass rule: correct iff the letters match; otherwise present iff
\* fewer earlier unmatched positions of the guess hold the letter than
\* unmatched positions of the word do; otherwise absent.
C1_TwoPassRule ==
    ev.done =>
        /\ Len(ev.statuses) = Len(ev.word)
        /\ \A i \in 1..Len(ev.word) :
               ev.statuses[i] = RuleStatus(ev.guess, ev.word, i)

C1_Witness ==
    /\ ev.done
    /\ {"correct", "present", "absent"} \subseteq Range(ev.statuses)

\* C2 as stated: for secret SPEED and guess ERASE exactly one of the two E
\* of the guess is present and the other one absent.
C2_OneEPresent ==
    (ev.done /\ ev.guess = ERASE /\ ev.word = SPEED) =>
        \/ ev.statuses[1] = "present" /\ ev.statuses[5] = "absent"
        \/ ev.statuses[1] = "absent" /\ ev.statuses[5] = "present"

\* C2 amended: SPEED holds two E, neither at a matching position, so both E
\* of ERASE are present: the statuses are present, absent, absent, present,
\* present.
C2_BothEPresent ==
    (ev.done /\ ev.guess = ERASE /\ ev.word = SPEED) =>
        ev.statuses = <<"present", "absent", "absent", "present", "present">>

C2_Witness == ev.done /\ ev.guess = ERASE /\ ev.word = SPEED

\* C3: a guess equal to the secret word is correct at every position, and
\* the endpoint's isCorrect is true.
C3_ExactMatchAllCorrect ==
    (ev.done /\ ev.guess = ev.word) =>
        /\ ev.statuses = [i \in 1..Len(ev.word) |-> "correct"]
        /\ ev.isCorrect

C3_Witness == ev.done /\ ev.guess = ev.word /\ Len(ev.word) >= 2

\* C4: a guess that shares no letter with the secret word is absent at every
\* position.
C4_NoCommonLetterAllAbsent ==
    (ev.done /\ Range(ev.guess) \cap Range(ev.word) = {}) =>
        ev.statuses = [i \in 1..Len(ev.word) |-> "absent"]

C4_Witness ==
    /\ ev.done
    /\ Len(ev.word) >= 2
    /\ Range(ev.guess) \cap Range(ev.word) = {}

\* positions of the guess holding the letter that are correct or present
Credited(letter) ==
    {i \in 1..Len(ev.guess) :
        ev.guess[i] = letter /\ ev.statuses[i] \in {"correct", "present"}}

\* a letter once in the word, twice in the guess, at no matching position
OnceInWordTwiceInGuess(letter, i, j) ==
    /\ Count(ev.word, letter) = 1
    /\ Count(ev.guess, letter) = 2
    /\ i < j
    /\ ev.guess[i] = letter /\ ev.guess[j] = letter
    /\ ev.word[i] # letter /\ ev.word[j] # letter

\* C5: for every letter, the positions of the guess credited for it
\* (correct or present) number min(occurrences in the guess, occurrences in
\* the word); a letter once in the word and twice in the guess, matching at
\* neither position, is present at its leftmost occurrence only.
C5_NoOverCredit ==
    ev.done =>
        /\ \A letter \in Range(ev.guess) \cup Range(ev.word) :
               Cardinality(Credited(letter))
                   = Min(Count(ev.guess, letter), Count(ev.word, letter))
        /\ \A letter \in Range(ev.guess) : \A i, j \in 1..Len(ev.guess) :
               OnceInWordTwiceInGuess(letter, i, j) =>
                   ev.statuses[i] = "present" /\ ev.statuses[j] = "absent"

C5_Witness ==
    /\ ev.done
    /\ \E letter \in Range(ev.guess) : \E i, j \in 1..Len(ev.guess) :
           OnceInWordTwiceInGuess(letter, i, j)

(***************************************************************************)
(* Properties of the player session (SpecStore).  Every action writes its  *)
(* own name to result, so a step that changes the state and ends with      *)
(* result.op = "apply_guess_for_player" is a call of that function.        *)
(***************************************************************************)
Active(uid) == <<ActiveId, uid>>

\* the step is a call apply_guess_for_player(session, active game, uid, ...)
AppliesGuess(uid) ==
    /\ result'.op = "apply_guess_for_player"
    /\ result'.uid = uid

Accepted(uid) == AppliesGuess(uid) /\ result'.error = "none"

Finished(rows, uid) ==
    /\ Active(uid) \in DOMAIN rows
    /\ rows[Active(uid)].finish_time # None

GuessCount(rows, uid) ==
    IF Active(uid) \in DOMAIN rows
    THEN Cardinality(rows[Active(uid)].guesses) ELSE 0

\* the outcome C6 names for an accepted guess that became guess number k
OutcomeOfGuess(uid, k) ==
    LET game == games[ActiveId]
        row == sess'[Active(uid)]
    IN /\ k <= game.max_guesses
       /\ db'[Active(uid)] = row
       /\ IF result'.guess = game.word
          THEN row.is_winner /\ row.finish_time # None
          ELSE IF k = game.max_guesses
               THEN ~row.is_winner /\ row.finish_time # None
               ELSE ~row.is_winner /\ row.finish_time = None

\* C6: an accepted guess equal to the secret word, as guess number
\* k <= max_guesses, leaves the session Won; an accepted other guess leaves
\* it Lost when it is guess number max_guesses and Active below that; a
\* guess on a Won or Lost session is not accepted.
C6_SessionOutcome ==
    [][\A uid \in Uids :
          /\ Accepted(uid) => OutcomeOfGuess(uid, GuessCount(sess, uid) + 1)
          /\ (AppliesGuess(uid) /\ Finished(sess, uid)) =>
                 /\ result'.error # "none"
                 /\ GuessCount(sess', uid) = GuessCount(sess, uid)
      ]_vars

\* Won with the last guess allowed, and Lost
C6_Witness ==
    /\ result.op = "apply_guess_for_player"
    /\ result.error = "none"
    /\ GuessCount(db, result.uid) = MAX_GUESSES
    /\ db[Active(result.uid)].is_winner
    /\ \E other \in Uids \ {result.uid} : Finished(db, other)

\* C7 as stated: a call on a session whose finish time is set raises
\* InvalidGuessSequenceError and leaves every field of the session as it was.
C7_TerminalCallChangesNothing ==
    [][\A uid \in Uids :
          (AppliesGuess(uid) /\ Finished(sess, uid)) =>
              /\ result'.error = BadSequence
              /\ sess'[Active(uid)] = sess[Active(uid)]
              /\ db'[Active(uid)] = db[Active(uid)]
      ]_vars

GuessNumbers(row) == {g.guess_number : g \in row.guesses}

Contiguous(rows) ==
    \A key \in DOMAIN rows :
        /\ GuessNumbers(rows[key]) = 1..Cardinality(rows[key].guesses)
        /\ Cardinality(rows[key].guesses) <= games[key[1]].max_guesses

\* C8: in every state the guess numbers of every session are exactly 1..N,
\* N the number of its guesses, N <= max_guesses of its game; an accepted
\* guess is appended with number N + 1 and the earlier guesses stay.
C8_ContiguousGuessNumbers ==
    /\ [](Contiguous(sess) /\ Contiguous(db))
    /\ [][\A uid \in Uids :
            Accepted(uid) =>
                LET before == IF Active(uid) \in DOMAIN sess
                              THEN sess[Active(uid)].guesses ELSE {}
                    after == sess'[Active(uid)].guesses
                IN /\ before \subseteq after
                   /\ {g.guess_number : g \in after \ before}
                          = {Cardinality(before) + 1}
                   /\ Cardinality(after) = Cardinality(before) + 1
        ]_vars

C8_Witness ==
    /\ result.op = "apply_guess_for_player"
    /\ result.error = "none"
    /\ GuessCount(db, result.uid) = MAX_GUESSES

HintRank(row, letter) ==
    IF letter \in DOMAIN row.keyboard_statuses
    THEN StatusPriorityGet(row.keyboard_statuses[letter]) ELSE 0

NeverRegresses(before, after) ==
    \A key \in DOMAIN before \cap DOMAIN after :
        \A letter \in DOMAIN before[key].keyboard_statuses :
            HintRank(after[key], letter) >= HintRank(before[key], letter)

\* C9: in no step does the stored hint of a letter lose priority
\* (absent 1 < present 2 < correct 3): a stored correct is never later
\* present or absent, a stored present never later absent.
C9_HintsNeverRegress ==
    [][NeverRegresses(sess, sess') /\ NeverRegresses(db, db')]_vars

\* a letter stored as correct was given a lower status by a later guess
C9_Witness ==
    \E key \in DOMAIN db : \E g1, g2 \in db[key].guesses :
        \E i, j \in 1..Len(g1.guess_text) :
            /\ g1.guess_number < g2.guess_number
            /\ g1.guess_text[i] = g2.guess_text[j]
            /\ g1.statuses[i] = "correct"
            /\ g2.statuses[j] \in {"present", "absent"}
            /\ db[key].keyboard_statuses[g1.guess_text[i]] = "correct"

(***************************************************************************)
(* Properties of the score ledger (SpecApp).                               *)
(***************************************************************************)
\* the responses to the well-formed submissions of one player id
Answered(uid, status) ==
    {i \in 1..Len(responses) :
        /\ responses[i].op = "submit"
        /\ responses[i].uid = uid
        /\ responses[i].status = status}

LedgerUids(scores) == {scores[i].uid : i \in 1..Len(scores)}

\* C10 as stated: of the submissions for one game and player id exactly one
\* succeeds and every other one is answered 409, however their load, check
\* and save steps interleave; the ledger never holds a player id twice.
C10_SubmitAtMostOnce ==
    /\ \A uid \in {"d1", "d2"} :
          /\ Cardinality(Answered(uid, 200)) <= 1
          /\ Answered(uid, 409) # {} => Cardinality(Answered(uid, 200)) = 1
    /\ file.exists =>
          Cardinality(LedgerUids(file.scores)) = Len(file.scores)

(***************************************************************************)
(* Properties of concurrent guess requests (SpecTxn).                      *)
(***************************************************************************)
\* the requests on one session that returned from apply_guess_for_player
Succeeded(key) ==
    {i \in 1..Len(responses) :
        /\ responses[i].op = "apply_guess_for_player"
        /\ responses[i].key = key
        /\ responses[i].error = "none"}

StoredGuesses(key) == IF key \in DOMAIN db THEN db[key].guesses ELSE {}

\* C11: however two guess requests for one (game, player) interleave, the
\* committed session holds at most one guess per guess number, and it holds
\* as many guesses as requests for it reported success.
C11_OneGuessPerNumber ==
    \A uid \in Uids :
        LET stored == StoredGuesses(Active(uid)) IN
        /\ Cardinality({g.guess_number : g \in stored}) = Cardinality(stored)
        /\ Cardinality(stored) = Cardinality(Succeeded(Active(uid)))

\* two requests raced for guess number 2 of one session and one of them failed
C11_Witness ==
    \E uid \in Uids : \E i \in 1..Len(responses) :
        /\ responses[i].key = Active(uid)
        /\ responses[i].error = IntegrityError
        /\ Cardinality(StoredGuesses(Active(uid))) = 2
        /\ Cardinality(Succeeded(Active(uid))) = 2

(***************************************************************************)
(* Properties of the active game (SpecGames).                              *)
(***************************************************************************)
\* response i is a reset that committed its game
IsReset(i) == responses[i].op = "create_game" /\ responses[i].error = "none"

IsRequire(i) == responses[i].op = "require_active_game"

\* response i is a lookup that returned a game or raised GameMismatchError
IsLookup(i) ==
    /\ responses[i].op \in {"get_active_game", "require_active_game"}
    /\ responses[i].error # OperationalError

\* the uid of the active game when count games were committed
ActiveAt(count) ==
    IF count = 0 THEN NoGameUid ELSE Newest(SubSeq(games, 1, count)).uid

\* the uid of the game that was active when the game uid was committed
ActiveBefore(uid) ==
    ActiveAt((CHOOSE k \in 1..Len(games) : games[k].uid = uid) - 1)

\* response i is a require_active_game called, after a reset, with the uid
\* of the game that was active before that reset
StaleRequire(i) ==
    /\ IsRequire(i)
    /\ responses[i].error # OperationalError
    /\ responses[i].arg # NoGameUid
    /\ \E r \in 1..(i - 1) :
           IsReset(r) /\ responses[i].arg = ActiveBefore(responses[r].game)

\* C12 as stated: after a reset, require_active_game called with the uid of
\* the game that was active before the reset raises GameMismatchError
\* carrying the active game, whose uid differs from the stale one; a
\* following call with the carried uid, no game having been committed in
\* between, returns that game without an error.
C12_StaleIdentityMismatch ==
    \A i \in 1..Len(responses) :
        StaleRequire(i) =>
            /\ responses[i].error = GameMismatch
            /\ responses[i].game = ActiveAt(responses[i].count)
            /\ responses[i].game # responses[i].arg
            /\ \A j \in (i + 1)..Len(responses) :
                   (/\ IsRequire(j)
                    /\ responses[j].arg = responses[i].game
                    /\ responses[j].count = responses[i].count) =>
                       /\ responses[j].error = "none"
                       /\ responses[j].game = responses[i].game

\* no reset is answered between responses i and j
NoResetBetween(i, j) == \A k \in (i + 1)..(j - 1) : ~IsReset(k)

\* C14 as stated: the games have distinct identities and exactly one of them
\* is the newest; once a reset has committed, every lookup that reads the
\* table afterwards (get_active_game or require_active_game, until the next
\* reset) observes the game that reset created.
C14_ResetAtomic ==
    /\ \A g, h \in 1..Len(games) : games[g].uid = games[h].uid => g = h
    /\ \A i, j \in 1..Len(responses) :
           (/\ i < j
            /\ IsReset(i)
            /\ IsLookup(j)
            /\ ~responses[j].created
            /\ NoResetBetween(i, j)) =>
               responses[j].game = responses[i].game

\* the committed game of this uid
GameOf(uid) == CHOOSE game \in Range(games) : game.uid = uid

\* C15 as stated: with no reset, the first lookup creates exactly one game
\* and every lookup, those racing with the first one included, returns that
\* game's identity and word.
C15_BootstrapOnce ==
    (\A k \in 1..Len(responses) : ~IsReset(k)) =>
        /\ Len(games) <= 1
        /\ \A i, j \in 1..Len(responses) :
               (IsLookup(i) /\ IsLookup(j)) =>
                   /\ responses[i].game = responses[j].game
                   /\ GameOf(responses[i].game).word
                          = GameOf(responses[j].game).word

(***************************************************************************)
(* Properties of the endpoints of app.py (SpecSite).                       *)
(***************************************************************************)
\* response i answers a guess or state request that reached its handler's
\* game with the identity of another game
StaleRequest(i) ==
    /\ responses[i].op \in {"guess", "state"}
    /\ responses[i].active # 0
    /\ responses[i].gameUid # responses[i].active

\* C13 as stated: every guess, submit and state request that carries a game
\* identity other than the active game's is answered with a conflict (409)
\* and evaluates no guess and changes nothing.
C13_StaleRequestRejected ==
    \A i \in 1..Len(responses) : StaleRequest(i) => responses[i].status = 409

LastResponse == responses'[Len(responses')]

\* the step is an admin reset answered 200
ResetAuthorized ==
    /\ Len(responses') = Len(responses) + 1
    /\ LastResponse.op = "reset"
    /\ LastResponse.status = 200

\* the game identities handed out before this state
IssuedBefore ==
    {responses[i].active : i \in {k \in 1..Len(responses) :
                                     responses[k].op \in {"guess", "state", "reset"}}}
        \cup (IF file.exists THEN {file.gameUid} ELSE {})

\* C16: the step of an authorized admin reset leaves an active game whose
\* identity differs from the one before it and from every identity handed
\* out earlier, with no score entries and no player sessions.
C16_ResetClearsState ==
    [][ResetAuthorized =>
          /\ file'.exists
          /\ file'.gameUid \notin IssuedBefore
          /\ file'.gameUid = LastResponse.active
          /\ file'.scores = <<>>
          /\ file'.players = <<>>
      ]_vars

\* a reset has just replaced game 1, in which player u2 had a session
C16_Witness ==
    /\ Len(responses) = 2
    /\ responses[1].op = "state" /\ responses[1].status = 200
    /\ responses[1].uid = "u2" /\ responses[1].active = 1
    /\ responses[2].op = "reset" /\ responses[2].status = 200
    /\ file.gameUid # 1 /\ file.scores = <<>> /\ file.players = <<>>

\* the step in which post_state of proc, for uid and name, gets past its
\* name check
StateAccepted(proc, uid, name) ==
    /\ req[proc].pc = "idle"
    /\ req'[proc].pc = "save_players"
    /\ req'[proc].uid = uid
    /\ req'[proc].name = name

\* the step in which post_state for uid and name is answered 409
StateRefused(uid, name) ==
    /\ Len(responses') = Len(responses) + 1
    /\ LastResponse.op = "state"
    /\ LastResponse.status = 409
    /\ LastResponse.uid = uid
    /\ LastResponse.name = name

\* another player of the game in the file holds the name
HeldByOther(uid, name) ==
    /\ file.exists
    /\ \E other \in DOMAIN file.players :
           other # uid /\ file.players[other].name = name

\* C17: a state request of player B is answered 409 exactly when it gets to
\* the name check with a name that another player of the active game holds;
\* the answer carries the message 'The name <name> is already in use. Please
\* choose another' and nothing is stored.  A request with a name nobody
\* else holds gets past the check, so after a reset, which leaves no
\* sessions, B can take the name.
C17_NameConflict ==
    [][\A uid \in SiteUids, name \in Names :
          /\ StateRefused(uid, name) =>
                 /\ HeldByOther(uid, name)
                 /\ LastResponse.error = "The name " \o name
                        \o " is already in use. Please choose another"
                 /\ file' = file
                 /\ req' = req
          /\ (\E proc \in Procs : StateAccepted(proc, uid, name)) =>
                 ~HeldByOther(uid, name)
      ]_vars

\* B was refused the name A holds, the game was reset, B took the name
C17_Witness ==
    /\ Len(responses) = 3
    /\ responses[1].op = "state" /\ responses[1].status = 409
    /\ responses[1].uid = "u2" /\ responses[1].name = "Ann"
    /\ responses[2].op = "reset" /\ responses[2].status = 200
    /\ responses[3].op = "state" /\ responses[3].status = 200
    /\ responses[3].uid = "u2" /\ responses[3].name = "Ann"
    /\ file.players["u2"].name = "Ann"

\* the name of the last state request of uid answered 200 since the last
\* reset, "" when there is none
Holder(uid) ==
    LET resets == {i \in 1..Len(responses) :
                      responses[i].op = "reset" /\ responses[i].status = 200}
        mine == {i \in 1..Len(responses) :
                    /\ responses[i].op = "state"
                    /\ responses[i].status = 200
                    /\ responses[i].uid = uid
                    /\ \A r \in resets : r < i}
    IN IF mine = {} THEN ""
       ELSE responses[CHOOSE i \in mine : \A k \in mine : k <= i].name

\* C18 as stated: no two player ids of the active game have sessions with
\* the same name, and the name check and the creation of the session are
\* one atomic step: two requests of different players for one name never
\* both get past the check and succeed.
C18_NameUnique ==
    /\ file.exists =>
          \A u, v \in DOMAIN file.players :
              file.players[u].name = file.players[v].name => u = v
    /\ \A u, v \in SiteUids :
          (u # v /\ Holder(u) # "") => Holder(u) # Holder(v)

(***************************************************************************)
(* Properties of the ranking (SpecSort) and of the ledger (SpecApp).       *)
(***************************************************************************)
\* entry x ranks before entry y: fewer tries, then the shorter duration,
\* then the earlier timestamp
RanksBefore(x, y) ==
    \/ x.tries < y.tries
    \/ /\ x.tries = y.tries
       /\ x.duration # NaN /\ y.duration # NaN /\ x.duration < y.duration
    \/ /\ x.tries = y.tries /\ x.duration = y.duration
       /\ x.timestamp < y.timestamp

SameKey(x, y) ==
    x.tries = y.tries /\ x.duration = y.duration /\ x.timestamp = y.timestamp

\* output is input rearranged, entries with equal keys in their input order
StablePermutation(input, output) ==
    /\ Len(output) = Len(input)
    /\ \E pi \in [1..Len(input) -> 1..Len(input)] :
           /\ \A i, j \in 1..Len(input) : pi[i] = pi[j] => i = j
           /\ \A i \in 1..Len(input) : output[pi[i]] = input[i]
           /\ \A i, j \in 1..Len(input) :
                  (i < j /\ SameKey(input[i], input[j])) => pi[i] < pi[j]

\* C19 as stated: sort_scores returns a permutation of its input in which no
\* entry comes after an entry it ranks before (tries, then duration, then
\* timestamp, ascending), entries with equal keys in their input order; the
\* entries (3,50), (2,70), (3,40) come back as (2,70), (3,40), (3,50).
C19_SortedStable ==
    ev.done =>
        /\ StablePermutation(ev.scores, ev.sorted)
        /\ \A i, j \in 1..Len(ev.sorted) :
               i < j => ~RanksBefore(ev.sorted[j], ev.sorted[i])
        /\ ev.scores = <<Entry("d1", 3, 50, 1), Entry("d2", 2, 70, 2),
                         Entry("d3", 3, 40, 3)>> =>
               ev.sorted = <<Entry("d2", 2, 70, 2), Entry("d3", 3, 40, 3),
                             Entry("d1", 3, 50, 1)>>

\* C20 as stated: every entry of the ledger has tries > 0 and duration > 0.
C20_PositiveEntries ==
    file.exists =>
        \A i \in 1..Len(file.scores) :
            /\ file.scores[i].tries > 0
            /\ file.scores[i].duration # NaN
            /\ file.scores[i].duration > 0

(***************************************************************************)
(* Properties of the endpoints of app.py, third part.                      *)
(***************************************************************************)
\* the step answers a submission with 200: its save_scores has run
SubmitSucceeds(proc) ==
    /\ req[proc].pc = "save"
    /\ req'[proc].pc = "idle"
    /\ Len(responses') = Len(responses) + 1
    /\ responses'[Len(responses')].status = 200

\* C21: every step of post_submit on a stored game, and the step of a
\* successful submission above all, leaves the players' stored states, the
\* game identity, the secret word and its definition as they were; the
\* successful step writes the score ledger.
C21_SubmitChangesOnlyScores ==
    [][/\ file.exists =>
              /\ file'.players = file.players
              /\ file'.gameUid = file.gameUid
              /\ file'.word = file.word
              /\ file'.definition = file.definition
       /\ \A proc \in Procs :
              SubmitSucceeds(proc) /\ file.exists =>
                  file'.scores = req[proc].scores
      ]_vars

\* a submission has succeeded in a game where another player has a session
C21_Witness ==
    /\ file.exists
    /\ "u1" \in DOMAIN file.players
    /\ Len(file.scores) = 2
    /\ \E i \in 1..Len(responses) :
           responses[i].status = 200 /\ responses[i].uid = "d2"

\* the messages of sanitize_text for the text fields of the requests
TextFieldErrors ==
    {field \o " must be a string" : field \in {"guess", "uid", "name", "code"}}
    \cup {field \o " is required" : field \in {"guess", "uid", "name", "code"}}

\* C22 as stated: a request whose required text field (guess, uid, name or
\* admin code) is missing, not a string or blank is answered 400 with the
\* message that names the field, on the guess, state and admin endpoints as
\* on the submit endpoint.
C22_TextFieldError400 ==
    \A i \in 1..Len(responses) :
        responses[i].error \in TextFieldErrors => responses[i].status = 400

LookupPayloads ==
    {[guess |-> JStr(text), gameUid |-> 1] :
        text \in {<<"a", "b">>, <<"a", "a">>, <<"a">>, <<"a", "b", "a">>}}
    \cup {[guess |-> JNull, gameUid |-> 1]}

InitLookup ==
    /\ ev = NoEval
    /\ games = <<>>
    /\ db = <<>>
    /\ sess = <<>>
    /\ \/ file = NoFile /\ clock = 1
       \/ file \in PlayedFile /\ clock = 3
    /\ result = NoLookup
    /\ req = [p \in Procs |-> NoReq]
    /\ responses = <<>>
    /\ score = {}
    /\ engine = "sqlite"

NextLookup ==
    \/ \E proc \in Procs, payload \in LookupPayloads :
           GuessLoadWord(proc, payload)
    \/ \E proc \in Procs, outcome \in OracleOutcomes : PostGuess(proc, outcome)

SpecLookup == InitLookup /\ [][NextLookup]_vars

\* the oracle's answer is a definite not-found
NotFound(outcome) ==
    \/ outcome.kind = "HTTPError" /\ outcome.code = 404
    \/ outcome.kind = "response" /\ outcome.code # 200

\* C23 as stated: a guess that reached the oracle is answered 'That is not a
\* word.' (400) when the oracle answered not-found (404, or a success status
\* other than 200); on a network error, a timeout or any other HTTP error it
\* is answered 200 with its evaluation.
C23_FailsOpen ==
    result.op = "is_valid_word" =>
        LET last == responses[Len(responses)] IN
        IF NotFound(result.outcome)
        THEN last.status = 400 /\ last.error = "That is not a word."
        ELSE /\ last.status = 200
             /\ ev.done
             /\ ev.statuses = evaluate_guess(result.guess, file.word)

(***************************************************************************)
(* The word selector as a function of candidate_words.txt.  A text is a    *)
(* sequence of characters: a lower-case letter, an upper-case letter, a    *)
(* digit and the space.  The file is drawn, then choose_word_definition    *)
(* runs on it.                                                             *)
(***************************************************************************)
MaxLineLen == 3     \* characters of the first line of the file

PoolChars == {"a", "B", "1", " "}

\* str.isalpha() on one character
isalpha(char) == char \in {"a", "b", "A", "B"}

\* str.strip() on a sequence of characters
RECURSIVE StripLeft(_)
StripLeft(text) ==
    IF text = <<>> THEN <<>>
    ELSE IF Head(text) = " " THEN StripLeft(Tail(text))
    ELSE text

RECURSIVE StripRight(_)
StripRight(text) ==
    IF text = <<>> THEN <<>>
    ELSE IF text[Len(text)] = " " THEN StripRight(SubSeq(text, 1, Len(text) - 1))
    ELSE text

StripText(text) == StripRight(StripLeft(text))

\* str.split(" ", 1): the parts around the first space
RECURSIVE SplitOnce(_, _)
SplitOnce(text, i) ==
    IF i > Len(text) THEN <<text>>
    ELSE IF text[i] = " "
         THEN <<SubSeq(text, 1, i - 1), SubSeq(text, i + 1, Len(text))>>
         ELSE SplitOnce(text, i + 1)

\* mutant of sanitize_word: the characters are not filtered
sanitize_wordKeepAll(raw_word) ==
    LET word == UpperWord(StripText(raw_word)) IN
    IF word = <<>>
    THEN [error |-> "Word must contain alphabetic characters.", value |-> <<>>]
    ELSE [error |-> "", value |-> word]

\* sanitize_word: the word, or the message of the ValueError
sanitize_word(raw_word) ==
    LET word == SelectSeq(UpperWord(StripText(raw_word)), isalpha) IN
    IF word = <<>>
    THEN [error |-> "Word must contain alphabetic characters.", value |-> <<>>]
    ELSE [error |-> "", value |-> word]

\* parse_candidate_line: the word and the definition, or the ValueError
parse_candidate_line(line) ==
    LET parts == SplitOnce(StripText(line), 1)
        word == sanitize_word(parts[1])
    IN IF parts[1] = <<>>
       THEN [error |-> "Invalid candidate word.", word |-> <<>>,
             definition |-> <<>>]
       ELSE IF word.error # ""
       THEN [error |-> word.error, word |-> <<>>, definition |-> <<>>]
       ELSE [error |-> "", word |-> word.value,
             definition |-> IF Len(parts) > 1 THEN StripText(parts[2])
                            ELSE <<>>]

NotBlank(line) == StripText(line) # <<>>

\* the fixed default: ("CRATE", "")
DefaultChoice == [word |-> DEFAULT_WORD, definition |-> <<>>]

\* choose_word_definition on a file: what random.choice can return
ChooseWordDefinition(pool) ==
    IF ~pool.exists THEN {DefaultChoice}
    ELSE LET lines == SelectSeq(pool.lines, NotBlank)
             parsed == {parse_candidate_line(lines[i]) : i \in 1..Len(lines)}
             candidates == {[word |-> p.word, definition |-> p.definition] :
                               p \in {q \in parsed : q.error = ""}}
         IN IF candidates = {} THEN {DefaultChoice} ELSE candidates

LinesUpTo(n) == UNION {[1..k -> PoolChars] : k \in 0..n}

\* what follows the first line of the file: nothing, or one more line
MoreLines ==
    {<<>>, << <<"a", "1", " ">> >>, << <<"1">> >>, << <<" ">> >>,
     << <<"B", " ", "a", "B">> >>, << <<"B", "a", " ", " ", "a", " ", "1">> >>}

NoChoice == [word |-> <<>>, definition |-> <<>>]

ChooseWord ==
    /\ ~ev.done
    /\ \E choice \in ChooseWordDefinition(ev.pool) :
           ev' = [ev EXCEPT !.choice = choice, !.done = TRUE]
    /\ UNCHANGED <<games, db, sess, clock, result, file, req, responses, score, engine>>

InitPool ==
    /\ \/ ev = [pool |-> [exists |-> FALSE, lines |-> <<>>],
                choice |-> NoChoice, done |-> FALSE]
       \/ ev = [pool |-> [exists |-> TRUE, lines |-> <<>>],
                choice |-> NoChoice, done |-> FALSE]
       \/ \E line \in LinesUpTo(MaxLineLen), rest \in MoreLines :
              ev = [pool |-> [exists |-> TRUE, lines |-> <<line>> \o rest],
                    choice |-> NoChoice, done |-> FALSE]
    /\ games = <<>>
    /\ db = <<>>
    /\ sess = <<>>
    /\ clock = 1
    /\ result = NoResult
    /\ file = NoFile
    /\ req = <<>>
    /\ responses = <<>>
    /\ score = {}
    /\ engine = "sqlite"

NextPool == ChooseWord

SpecPool == InitPool /\ [][NextPool]_vars

\* a line without the spaces around it
Trimmed(line) ==
    LET filled == {i \in 1..Len(line) : line[i] # " "} IN
    IF filled = {} THEN <<>>
    ELSE SubSeq(line, CHOOSE i \in filled : \A j \in filled : i <= j,
                      CHOOSE i \in filled : \A j \in filled : i >= j)

\* where the first space of a trimmed line is, 0 when it has none
FirstSpace(text) ==
    LET spaces == {i \in 1..Len(text) : text[i] = " "} IN
    IF spaces = {} THEN 0 ELSE CHOOSE i \in spaces : \A j \in spaces : i <= j

FirstToken(line) ==
    LET text == Trimmed(line) IN
    IF FirstSpace(text) = 0 THEN text ELSE SubSeq(text, 1, FirstSpace(text) - 1)

AfterToken(line) ==
    LET text == Trimmed(line) IN
    IF FirstSpace(text) = 0 THEN <<>>
    ELSE Trimmed(SubSeq(text, FirstSpace(text) + 1, Len(text)))

UpperLetters == {"A", "B", "C", "E", "R", "T"}

\* the letters of a token, upper-cased
LettersOf(token) ==
    LET kept == SelectSeq(token, LAMBDA c : Upper(c) \in UpperLetters) IN
    [i \in 1..Len(kept) |-> Upper(kept[i])]

\* the candidates the lines of a file stand for
ValidCandidates(pool) ==
    {[word |-> LettersOf(FirstToken(pool.lines[i])),
      definition |-> AfterToken(pool.lines[i])] :
        i \in {j \in 1..Len(pool.lines) :
                  LettersOf(FirstToken(pool.lines[j])) # <<>>}}

\* C24: the word choose_word_definition returns is non-empty and made of
\* upper-case letters only; it is the upper-cased letters of the first token
\* of one of the file's lines whose token has a letter, with that line's
\* definition; when the file is missing or no line has such a token it is
\* the default ("CRATE", "").
C24_ChosenWord ==
    ev.done =>
        /\ ev.choice.word # <<>>
        /\ \A i \in 1..Len(ev.choice.word) : ev.choice.word[i] \in UpperLetters
        /\ IF ev.pool.exists /\ ValidCandidates(ev.pool) # {}
           THEN ev.choice \in ValidCandidates(ev.pool)
           ELSE ev.choice = DefaultChoice

\* a line whose token has no letter was skipped and the word of another
\* line, stripped of a digit, was chosen with its definition
C24_Witness ==
    /\ ev.done
    /\ ev.pool.lines = << <<"1", " ", "a">>, <<"a", "1", " ">> >>
    /\ ev.choice = [word |-> <<"A">>, definition |-> <<>>]

\* the step answers an admin reset
ResetAnswered ==
    /\ Len(responses') = Len(responses) + 1
    /\ LastResponse.op = "reset"

\* C25: a reset whose code is a text other than the admin code is answered
\* 403; a reset that is not answered 200 leaves game_state.json as it was
\* (identity, word, scores, players); the game is replaced only by a reset
\* that sent the admin code, and a response carries the secret word only
\* when it is the 200 of such a reset, the word being the new game's.
C25_ResetAdminOnly ==
    [][/\ ResetAnswered /\ LastResponse.error \notin TextFieldErrors
             /\ LastResponse.code # load_admin_code.value =>
              LastResponse.status = 403
       /\ ResetAnswered /\ LastResponse.status # 200 =>
              file' = file /\ LastResponse.word = <<>>
       /\ file.exists /\ file' # file /\ file'.gameUid # file.gameUid =>
              /\ ResetAnswered
              /\ LastResponse.status = 200
              /\ LastResponse.code = load_admin_code.value
       /\ ResetAnswered /\ LastResponse.status = 200 =>
              /\ LastResponse.code = load_admin_code.value
              /\ LastResponse.word = file'.word
              /\ file'.gameUid # IF file.exists THEN file.gameUid ELSE 0
      ]_vars

\* a reset with a wrong code was refused on a played game, which is still
\* there, and a reset with the admin code then replaced it
C25_Witness ==
    /\ Len(responses) = 2
    /\ responses[1].op = "reset" /\ responses[1].status = 403
    /\ responses[2].op = "reset" /\ responses[2].status = 200
    /\ file.gameUid = 3
    /\ file.players = <<>>

(***************************************************************************)
(* db.py: the commands rebuild_database and list_players on the tables of  *)
(* models.py.  games is the game table in the order of created_at, db has  *)
(* the player_state rows (keyed by <<game id, uid>>) and the score rows,   *)
(* responses the commands run so far with what they returned.              *)
(***************************************************************************)
MaxCalls == 2       \* commands run
DEFAULT_MAX_GUESSES == 6

\* candidate_words.txt as deployed with the commands
CandidateWordsFile ==
    [exists |-> TRUE,
     lines |-> << <<"a", " ", "B">>, <<"B", "a", " ", "1">> >>]

\* the --word and --definition arguments: absent, or a text
WordOverrides ==
    {None, Some(<<" ", "a", "1", "B", " ">>), Some(<<"b">>), Some(<<"1", " ">>),
     Some(<<>>)}
DefinitionOverrides == {None, Some(<<" ", "a", " ", "1", " ">>), Some(<<>>)}

\* mutant of _resolve_rebuild_word_definition: the word given is stored as it is
_resolve_rebuild_word_definitionRaw(choice, word, definition) ==
    [error |-> "",
     word |-> IF word = None THEN choice.word ELSE word[1],
     definition |-> IF definition = None THEN choice.definition
                    ELSE StripText(definition[1])]

\* _resolve_rebuild_word_definition: the pair, or sanitize_word's ValueError
_resolve_rebuild_word_definition(choice, word, definition) ==
    LET selected_word == IF word = None THEN [error |-> "", value |-> choice.word]
                         ELSE sanitize_word(word[1])
    IN IF selected_word.error # ""
       THEN [error |-> selected_word.error, word |-> <<>>, definition |-> <<>>]
       ELSE [error |-> "", word |-> selected_word.value,
             definition |-> IF definition = None THEN choice.definition
                            ELSE StripText(definition[1])]

NoRows == [player_state |-> <<>>, score |-> {}]

\* rebuild_database: drop_all and create_all, then the word is resolved and
\* the game inserted; a ValueError leaves the new tables empty
Rebuild(word, definition) ==
    /\ Len(responses) < MaxCalls
    /\ \E choice \in ChooseWordDefinition(CandidateWordsFile) :
       LET selected == _resolve_rebuild_word_definition(choice, word, definition)
       IN /\ db' = NoRows
          /\ IF selected.error # ""
             THEN games' = <<>> /\ clock' = clock
             ELSE /\ games' = <<[NewGame(clock, selected) EXCEPT
                                    !.max_guesses = DEFAULT_MAX_GUESSES]>>
                  /\ clock' = clock + 1
          /\ responses' = Append(responses,
                 [op |-> "rebuild", word |-> word, definition |-> definition,
                  choice |-> [word |-> choice.word,
                              definition |-> choice.definition],
                  error |-> selected.error])
    /\ UNCHANGED <<ev, sess, result, file, req, score, engine>>

\* mutant of casefold: the name as it is
casefoldNone(name) == name

\* str.casefold() on the names of the model

casefold(name) ==
    CASE name = "Bob" -> "bob"
      [] name = "Carl" -> "carl"
      [] OTHER -> name

\* a < b on the strings of the model: the place of each in their order
StringLess(a, b) ==
    LET place == [Bob |-> 1, Carl |-> 2, alice |-> 3, bob |-> 4, carl |-> 5]
    IN place[a] < place[b]

_normalize_tries(player_state) ==
    LET current_row == Cardinality(player_state.guesses) IN
    IF current_row < 0 THEN 0 ELSE current_row

\* results.sort(key=...): a stable sort, entry by entry
RECURSIVE InsertByName(_, _)
InsertByName(sorted, entry) ==
    IF sorted = <<>> THEN <<entry>>
    ELSE IF StringLess(casefold(entry.name), casefold(Head(sorted).name))
         THEN <<entry>> \o sorted
         ELSE <<Head(sorted)>> \o InsertByName(Tail(sorted), entry)

RECURSIVE SortByName(_, _)
SortByName(results, sorted) ==
    IF results = <<>> THEN sorted
    ELSE SortByName(Tail(results), InsertByName(sorted, Head(results)))

\* list_players after get_active_game; players is what the SELECT returned
list_players(players) ==
    SortByName([i \in 1..Len(players) |->
                   [name |-> players[i].name,
                    tries |-> _normalize_tries(players[i]),
                    status |-> IF players[i].is_winner THEN "Success"
                               ELSE "Fail"]],
               <<>>)

\* the orders in which a SELECT without ORDER BY can return the rows
RowOrders(rows, keys) ==
    {[i \in 1..Cardinality(keys) |-> rows[order[i]]] :
        order \in {o \in [1..Cardinality(keys) -> keys] :
                      \A i, j \in 1..Cardinality(keys) : o[i] = o[j] => i = j}}

\* list_players; get_active_game creates and commits a game when there is none
ListPlayers ==
    /\ Len(responses) < MaxCalls
    /\ \E choice \in ChooseWordDefinition(CandidateWordsFile) :
       LET table == IF games = <<>> THEN <<NewGame(clock, choice)>> ELSE games
           gid == Len(table)
           keys == {k \in DOMAIN db.player_state : k[1] = gid}
       IN /\ games' = table
          /\ clock' = IF games = <<>> THEN clock + 1 ELSE clock
          /\ \E players \in RowOrders(db.player_state, keys) :
                 responses' = Append(responses,
                     [op |-> "players", game |-> gid,
                      out |-> list_players(players)])
    /\ UNCHANGED <<ev, db, sess, result, file, req, score, engine>>

\* get_current_game_settings (the show command); get_active_game creates
\* and commits a game when there is none
GetCurrentGameSettings ==
    /\ Len(responses) < MaxCalls
    /\ \E choice \in ChooseWordDefinition(CandidateWordsFile) :
       LET table == IF games = <<>> THEN <<NewGame(clock, choice)>> ELSE games
           game == table[Len(table)]
       IN /\ games' = table
          /\ clock' = IF games = <<>> THEN clock + 1 ELSE clock
          /\ responses' = Append(responses,
                 [op |-> "show", game |-> Len(table),
                  out |-> [gameUid |-> game.uid,
                           wordLength |-> game.word_length,
                           maxGuesses |-> game.max_guesses,
                           word |-> game.word,
                           definition |-> game.definition]])
    /\ UNCHANGED <<ev, db, sess, result, file, req, score, engine>>

PlayerRow(name, tries, is_winner) ==
    [name |-> name, is_winner |-> is_winner, start_time |-> Some(1),
     finish_time |-> IF is_winner THEN Some(2) ELSE None,
     guesses |-> {[guess_number |-> k, guess_text |-> <<"A">>,
                   statuses |-> <<"absent">>] : k \in 1..tries},
     keyboard_statuses |-> <<>>]

\* the tables before the commands: empty, one game with three sessions, or
\* a superseded game and the active one, each with sessions and a score
OldStores ==
    {[games |-> <<>>, rows |-> NoRows],
     [games |-> <<NewGame(1, [word |-> <<"A">>, definition |-> <<"B">>])>>,
      rows |-> [player_state |->
                   PutRow(PutRow(PutRow(<<>>, <<1, "u1">>, PlayerRow("bob", 1, FALSE)),
                                 <<1, "u2">>, PlayerRow("alice", 2, TRUE)),
                          <<1, "u3">>, PlayerRow("Bob", 0, FALSE)),
                score |-> {[game_id |-> 1, uid |-> "u2", tries |-> 2]}]],
     [games |-> <<NewGame(1, [word |-> <<"A">>, definition |-> <<"B">>]),
                  NewGame(2, [word |-> <<"B", "A">>, definition |-> <<"1">>])>>,
      rows |-> [player_state |->
                   PutRow(PutRow(PutRow(<<>>, <<1, "u1">>, PlayerRow("Carl", 1, TRUE)),
                                 <<2, "u1">>, PlayerRow("Bob", 2, FALSE)),
                          <<2, "u2">>, PlayerRow("alice", 1, TRUE)),
                score |-> {[game_id |-> 1, uid |-> "u1", tries |-> 1]}]]}

InitAdmin ==
    /\ \E store \in OldStores :
           /\ games = store.games
           /\ db = store.rows
           /\ clock = Len(store.games) + 1
    /\ ev = NoEval
    /\ sess = <<>>
    /\ result = NoResult
    /\ file = NoFile
    /\ req = <<>>
    /\ responses = <<>>
    /\ score = {}
    /\ engine = "sqlite"

NextAdmin ==
    \/ \E word \in WordOverrides, definition \in DefinitionOverrides :
           Rebuild(word, definition)
    \/ ListPlayers
    \/ GetCurrentGameSettings

SpecAdmin == InitAdmin /\ [][NextAdmin]_vars

\* the command run last returned from rebuild_database
Rebuilt ==
    /\ responses # <<>>
    /\ responses[Len(responses)].op = "rebuild"
    /\ responses[Len(responses)].error = ""

\* C26: when rebuild_database has returned, the store holds one game and no
\* session or score; the game's word is the letters of the word given,
\* upper-cased, or the selector's word when none was given; its definition is
\* the definition given without the spaces around it, or the selector's;
\* word_length is the length of the word and max_guesses is 6.
C26_RebuildSeedsOneGame ==
    Rebuilt =>
        LET last == responses[Len(responses)] IN
        /\ Len(games) = 1
        /\ db.player_state = <<>>
        /\ db.score = {}
        /\ last.choice \in ValidCandidates(CandidateWordsFile)
        /\ games[1].word = IF last.word # None THEN LettersOf(last.word[1])
                           ELSE last.choice.word
        /\ games[1].definition = IF last.definition # None
                                 THEN Trimmed(last.definition[1])
                                 ELSE last.choice.definition
        /\ games[1].word # <<>>
        /\ games[1].word_length = Len(games[1].word)
        /\ games[1].max_guesses = 6

\* a store with two games, sessions and a score was listed and then rebuilt
\* with a word and a definition given
C26_Witness ==
    /\ Rebuilt
    /\ Len(responses) = 2
    /\ responses[1].op = "players" /\ responses[1].game = 2
    /\ responses[2].word = Some(<<" ", "a", "1", "B", " ">>)
    /\ responses[2].definition = Some(<<" ", "a", " ", "1", " ">>)
    /\ games[1].word = <<"A", "B">>
    /\ games[1].definition = <<"a", " ", "1">>

\* the command run last was list_players
Listed ==
    /\ responses # <<>>
    /\ responses[Len(responses)].op = "players"

\* where a name stands when upper and lower case count as the same
CaseInsensitivePlace(name) ==
    [alice |-> 1, bob |-> 2, Bob |-> 2, Carl |-> 3][name]

\* C27: list_players returns one entry for each session of the active game
\* and none for sessions of superseded games, in the order of the names
\* without regard to case; an entry's status is 'Success' when the session is
\* a winner and 'Fail' otherwise, its tries the number of the session's
\* guesses.
C27_ListPlayers ==
    Listed =>
        LET out == responses[Len(responses)].out
            keys == {k \in DOMAIN db.player_state : k[1] = Len(games)}
        IN /\ responses[Len(responses)].game = Len(games)
           /\ Len(out) = Cardinality(keys)
           /\ \A k \in keys : \E i \in 1..Len(out) :
                  /\ out[i].name = db.player_state[k].name
                  /\ out[i].tries = Cardinality(db.player_state[k].guesses)
                  /\ out[i].status = "Success" <=> db.player_state[k].is_winner
                  /\ out[i].status \in {"Success", "Fail"}
           /\ \A i \in 1..Len(out) : \E k \in keys :
                  out[i].name = db.player_state[k].name
           /\ \A i, j \in 1..Len(out) :
                  i < j => CaseInsensitivePlace(out[i].name)
                               <= CaseInsensitivePlace(out[j].name)

\* the sessions of the second game were listed, the winner first, while the
\* superseded game has a session too
C27_Witness ==
    /\ Listed
    /\ Len(games) = 2
    /\ <<1, "u1">> \in DOMAIN db.player_state
    /\ responses[Len(responses)].out =
           <<[name |-> "alice", tries |-> 1, status |-> "Success"],
             [name |-> "Bob", tries |-> 2, status |-> "Fail"]>>

(***************************************************************************)
(* Properties of the sessions of the store (SpecStore), second part.       *)
(***************************************************************************)
\* the guesses recorded before are there afterwards, as they were, and every
\* guess added is numbered after them
GuessesPrefix(old, new) ==
    /\ old \subseteq new
    /\ \A g \in new \ old : \A h \in old : g.guess_number > h.guess_number

\* what a step may do to the sessions: none disappears, a finished one keeps
\* its finish time and isWinner, the guesses only grow at the end
SessionsKept(before, after) ==
    \A key \in DOMAIN before :
        /\ key \in DOMAIN after
        /\ before[key].finish_time # None =>
               /\ after[key].finish_time = before[key].finish_time
               /\ after[key].is_winner = before[key].is_winner
        /\ GuessesPrefix(before[key].guesses, after[key].guesses)

\* C28: in every step, a session whose finish time is set keeps its finish
\* time and isWinner, and the guesses of every session before the step
\* (number, text, statuses) are a prefix of its guesses after it; this holds
\* for the committed rows and for the rows as the ORM session sees them.
C28_TerminalAbsorbing ==
    [][SessionsKept(db, db') /\ SessionsKept(sess, sess')]_vars

\* a guess was sent to a session that had finished after two guesses and was
\* refused
C28_Witness ==
    /\ result.op = "apply_guess_for_player"
    /\ result.message = "Game is already over for this player."
    /\ <<1, result.uid>> \in DOMAIN db
    /\ db[<<1, result.uid>>].finish_time # None
    /\ Cardinality(db[<<1, result.uid>>].guesses) = 2

\* the statuses the recorded guesses of a session gave to a letter
StatusesGiven(row, letter) ==
    UNION {{g.statuses[i] : i \in {j \in 1..Len(g.guess_text) :
                                      g.guess_text[j] = letter}} :
              g \in row.guesses}

\* the hint that stands for a set of statuses: correct before present
\* before absent
BestOf(given) ==
    IF "correct" \in given THEN "correct"
    ELSE IF "present" \in given THEN "present"
    ELSE "absent"

HintsAreBest(rows) ==
    \A key \in DOMAIN rows :
        LET row == rows[key] IN
        /\ DOMAIN row.keyboard_statuses =
               UNION {{g.guess_text[i] : i \in 1..Len(g.guess_text)} :
                         g \in row.guesses}
        /\ \A letter \in DOMAIN row.keyboard_statuses :
               row.keyboard_statuses[letter] = BestOf(StatusesGiven(row, letter))

\* C29: in every reachable state the letters that have a keyboard hint in a
\* session are the letters of its recorded guesses, and the hint of a letter
\* is the best status (absent < present < correct) that a recorded guess
\* gave to an occurrence of it; this holds for the committed rows and for
\* the rows as the ORM session sees them.
C29_HintIsBestStatus ==
    HintsAreBest(db) /\ HintsAreBest(sess)

\* a recorded guess holds a letter twice, once correct and once absent, the
\* hint of the letter is correct, and a letter first seen as present was
\* raised to correct by a later guess
C29_Witness ==
    \E key \in DOMAIN db : \E g1, g2, g3 \in db[key].guesses :
        /\ g1.guess_text = <<"A", "A">>
        /\ g1.statuses = <<"correct", "absent">>
        /\ db[key].keyboard_statuses["A"] = "correct"
        /\ g2.guess_number < g3.guess_number
        /\ g2.guess_text = <<"B", "A">> /\ g2.statuses[1] = "present"
        /\ g3.guess_text = <<"A", "B">>
        /\ db[key].keyboard_statuses["B"] = "correct"

\* C30: a guess whose length is not the secret word's is answered 400
\* 'Invalid guess length.' without the oracle being asked and without an
\* evaluation; the oracle is asked, and evaluate_guess called, only with a
\* guess of the secret word's length.
C30_LengthCheckedFirst ==
    /\ result.op \in {"post_guess", "is_valid_word"} =>
           LET last == responses[Len(responses)] IN
           IF Len(result.guess) # Len(file.word)
           THEN /\ last.status = 400
                /\ last.error = "Invalid guess length."
                /\ result.op = "post_guess"
                /\ ~ev.done
           ELSE /\ last.error # "Invalid guess length."
                /\ result.op = "is_valid_word"
    /\ ev.done => Len(ev.guess) = Len(ev.word) /\ ev.word = file.word

\* a guess was evaluated, then a longer one was refused for its length
C30_Witness ==
    /\ Len(responses) = 2
    /\ responses[1].status = 200
    /\ responses[2].error = "Invalid guess length."
    /\ result.op = "post_guess"
    /\ result.guess = <<"A", "B", "A">>
    /\ file.word = <<"A", "B">>

(***************************************************************************)
(* Properties of the score ledger (SpecApp), second part.                  *)
(***************************************************************************)
\* C31 as stated: every submission that was answered 200 has its entry in
\* the ledger afterwards, also when two players' load, append and save
\* steps interleave.
C31_NoAcknowledgedScoreLost ==
    \A i \in 1..Len(responses) :
        responses[i].status = 200 =>
            /\ file.exists
            /\ responses[i].uid \in LedgerUids(file.scores)

(***************************************************************************)
(* Properties of the endpoints of app.py, fourth part (SpecSite).          *)
(***************************************************************************)
\* a state request for the player was served on the game with this identity
PlacedIn(uid, gameUid) ==
    \E i \in 1..Len(responses) :
        /\ responses[i].op = "state"
        /\ responses[i].status = 200
        /\ responses[i].uid = uid
        /\ responses[i].active = gameUid

\* C32 as stated: the game a reset created holds only the sessions that
\* state requests served on it have stored; a request that loaded the
\* players before the reset and saves after it brings none of the
\* superseded game's sessions along.  (The first game has identity 1.)
C32_ResetIsolatesNewGame ==
    file.exists /\ file.gameUid # 1 =>
        \A uid \in DOMAIN file.players : PlacedIn(uid, file.gameUid)

\* every session that holds max_guesses guesses of its game is finished
FullIsFinished(rows) ==
    \A key \in DOMAIN rows :
        Cardinality(rows[key].guesses) >= games[key[1]].max_guesses =>
            rows[key].finish_time # None

\* C33: in every state a session that holds max_guesses guesses has its
\* finish time set, in the committed rows and in the rows of the ORM
\* session; so no call of apply_guess_for_player ends with the "Maximum
\* guesses reached" rejection: a guess on a full session is answered "Game
\* is already over".
C33_FullSessionIsFinished ==
    /\ FullIsFinished(db)
    /\ FullIsFinished(sess)
    /\ result.message # "Maximum guesses reached for this game."
    /\ (/\ result.op = "apply_guess_for_player"
        /\ result.error # NameInUse
        /\ <<ActiveId, result.uid>> \in DOMAIN sess
        /\ Cardinality(sess[<<ActiveId, result.uid>>].guesses) = MAX_GUESSES
        /\ result.error # "none")
       => result.message = "Game is already over for this player."

\* a guess was sent to a session lost with max_guesses wrong guesses and was
\* refused as already over
C33_Witness ==
    /\ result.op = "apply_guess_for_player"
    /\ result.message = "Game is already over for this player."
    /\ <<1, result.uid>> \in DOMAIN db
    /\ Cardinality(db[<<1, result.uid>>].guesses) = MAX_GUESSES
    /\ ~db[<<1, result.uid>>].is_winner

\* the view of the session stored under key
ViewOf(rows, key) == _serialize_player_state(rows[key], games[key[1]])

ViewConsistent(rows) ==
    \A key \in DOMAIN rows :
        LET view == ViewOf(rows, key)
            word == games[key[1]].word
            n == Len(view.guesses)
        IN /\ view.currentRow = Cardinality(rows[key].guesses)
           /\ view.gameOver <=> rows[key].finish_time # None
           /\ view.isWinner <=> (n > 0 /\ view.guesses[n].guess = word)
           /\ view.isWinner => view.gameOver
           /\ \A i \in 1..(n - 1) : view.guesses[i].guess # word

\* C34: in every state the view of every session (committed, and as the ORM
\* session sees it) agrees with its recorded guesses: currentRow is their
\* number, gameOver is true exactly when the finish time is set, isWinner is
\* true exactly when the last recorded guess is the secret word, isWinner
\* implies gameOver, and no guess before the last one is the secret word.
C34_ViewConsistent ==
    ViewConsistent(db) /\ ViewConsistent(sess)

\* one session lost with max_guesses guesses, another one won
C34_Witness ==
    \E lost \in DOMAIN db, won \in DOMAIN db :
        /\ ViewOf(db, lost).gameOver
        /\ ~ViewOf(db, lost).isWinner
        /\ ViewOf(db, lost).currentRow = MAX_GUESSES
        /\ ViewOf(db, won).isWinner
        /\ ViewOf(db, won).currentRow >= 1

(***************************************************************************)
(* app.py: score submissions and resets served together.                   *)
(***************************************************************************)
NextLedger ==
    \/ \E proc \in Procs, payload \in SubmitPayloads : SubmitBegin(proc, payload)
    \/ \E proc \in Procs : SubmitEntry(proc)
    \/ \E proc \in Procs : SubmitSave(proc)
    \/ \E proc \in Procs, payload \in ResetPayloads : AdminReset(proc, payload)

SpecLedger == InitApp /\ [][NextLedger]_vars

\* C35 as stated: the ledger is the ledger of the active game alone.  Every
\* entry on the leaderboard was recorded after the active game was created
\* (identities and timestamps are readings of one clock), so no entry of a
\* superseded game is shown, and the ledger holds a player id once.
C35_ScoresScopedToGame ==
    file.exists =>
        /\ \A i \in 1..Len(file.scores) :
               file.scores[i].timestamp > file.gameUid
        /\ Cardinality(LedgerUids(file.scores)) = Len(file.scores)

\* the step is a call of apply_guess_for_player that raised the name conflict
NameConflictRaised ==
    /\ result'.op = "apply_guess_for_player"
    /\ result'.error = NameInUse

\* the rows a refused call leaves: the same sessions, each with the name,
\* the guesses, the hints and the times it had
SameSessions(before, after) ==
    /\ DOMAIN after = DOMAIN before
    /\ \A key \in DOMAIN before :
          /\ after[key].name = before[key].name
          /\ after[key].guesses = before[key].guesses
          /\ after[key].keyboard_statuses = before[key].keyboard_statuses
          /\ after[key] = before[key]

\* C36: a call of apply_guess_for_player that raises the name conflict
\* creates no session, appends no guess, changes no keyboard hint and no
\* name, of the caller or of the other player, in the rows of the ORM
\* session and in the committed rows; the requested name is held by another
\* player of the game.
C36_NameConflictChangesNothing ==
    [][NameConflictRaised =>
          /\ SameSessions(sess, sess')
          /\ SameSessions(db, db')
          /\ \E name \in Names :
                 /\ result'.message = "The name " \o name
                        \o " is already in use. Please choose another"
                 /\ has_name_conflict(sess, ActiveId, result'.uid, name)
      ]_vars

\* the name conflict was raised for a player who has a session with a guess,
\* and (in another run) for a player who has none
C36_Witness ==
    /\ result.op = "apply_guess_for_player"
    /\ result.error = NameInUse
    /\ Active(result.uid) \in DOMAIN sess
    /\ sess[Active(result.uid)].guesses # {}
    /\ \E other \in Uids \ {result.uid} :
           /\ Active(other) \in DOMAIN sess
           /\ sess[Active(other)].guesses # {}


====
